---- MODULE Spec2Model ----
(***************************************************************************)
(* Orchestration core of the Soup / Monoma server (src/Server/server.js):  *)
(* the generic retry wrapper, the wallet provisioner working against the   *)
(* factory contracts (src/unnamed/part_001), the attestation poller, the   *)
(* burn route, the batch provisioning route and the two routes that call   *)
(* the SDK.  Each component has its own specification (SpecRetry,          *)
(* SpecProvision, SpecWallet, SpecFactory, SpecAttest, SpecBurn,           *)
(* SpecBatch, SpecAmount, SpecTransfer); SpecRequest is one request of     *)
(* any route under fairness; SpecConcurrent and SpecRace are two requests  *)
(* in flight together.  Apart from the orchestration: the wallet contract  *)
(* TransferOnlyWallet (SpecToken), the tables behind the store routes      *)
(* (SpecUserStore, SpecRequestStore) and the guard of the pay page         *)
(* (src/Web/app/home/page.tsx, SpecPage).  The variables of the components *)
(* a specification does not exercise stay at their initial values.         *)
(***************************************************************************)
EXTENDS Integers, Sequences, FiniteSets, TLC

VARIABLES
    \* ---- runWithRetries (server.js 131-146) ----
    rwPc,           \* "loop" | "action" | "sleep" | "exit" | "returned" | "thrown"
    rwAttempt,      \* let attempt
    rwMaxAttempts,  \* option maxAttempts
    rwBaseDelayMs,  \* option baseDelayMs
    rwLastErr,      \* let lastErr
    rwOutcomes,     \* what each invocation of action() did, in order
    rwSlept,        \* the delays slept so far, in order (ms)
    rwResult,       \* the value returned or the failure raised
    \* ---- fetchAttestation (server.js 378-420) ----
    faPc,           \* "loop" | "wait" | "fetch" | "returned" | "thrown"
    faAttempts,     \* let attempts
    faWaited,       \* milliseconds waited before polls so far
    faPolls,        \* HTTP requests sent so far
    faResponse,     \* const response / data of the current iteration
    faReadyAt,      \* attempts at which a poll produced a ready response
    faErrors,       \* polls so far that reached the catch block
    faResult,       \* the value returned or the failure raised
    \* ---- the chains, as the provisioner sees them ----
    chEvents,       \* WalletCreated events of the factories, in mining order
    chPending,      \* creation transactions delivered to a node, not yet mined
    chAged,         \* per lookback window: how many events lie further back
    chOwner,        \* per factory: what owner() answers ("unknown": not yet asked)
    \* ---- createWalletOnChain / createAvalancheTransferWallet in progress ----
    wpFn,           \* "none" | "burnWallet" | "transferWallet"
    wpChain,        \* chainKey (burn wallet) or "avalanche" (transfer wallet)
    wpArg,          \* mintRecipient or destinationAddress
    wpPc,           \* control position inside the function
    wpAttempts,     \* let attempts
    wpTx,           \* the transaction response being awaited (0: none)
    wpStats,        \* what the call has done so far: RPCs, owner() queries, ...
    \* ---- the caller ----
    clCalls,        \* the calls completed so far, with their outcome
    clBudget,       \* the number of calls the caller makes
    \* ---- POST /api/burn-usdc/:chain (server.js 690-708, 442-485) ----
    brPc,           \* control position of the request
    brChain,        \* req.params.chain, lowercased
    brWalletAddress, \* req.body.walletAddress
    brAmount,       \* req.body.amount
    brAttempt,      \* runWithRetries: let attempt
    brLastErr,      \* runWithRetries: let lastErr
    brInvoked,      \* invocations of burnUSDCOnChain so far
    brSlept,        \* the delays slept so far, in order (ms)
    brBurnTxs,      \* burnUSDC transactions a node has taken
    brBurnsConfirmed, \* burnUSDC transactions whose tx.wait() resolved
    brMintTxs,      \* receiveMessage transactions a node has taken
    brMintsConfirmed, \* receiveMessage transactions whose tx.wait() resolved
    brTx,           \* burnUSDCOnChain: const tx of the current invocation
    brAttestKey,    \* the domain and hash the current invocation polls for
    brAttestation,  \* burnUSDCOnChain: const attestationData
    brMintTx,       \* mintOnArbitrum: const tx of the current invocation
    brResponse,     \* the HTTP response
    \* ---- POST /api/create-wallet-all (server.js 914-956) ----
    baPc,           \* control position of the request
    baDestination,  \* req.body.avalancheDestination
    baAvalancheAddress, \* let avalancheAddress
    baIndex,        \* position of the for loop in its list of chains
    baLines,        \* const lines
    baCalls,        \* the creation calls the request has made, with their outcome
    baResponse,     \* the HTTP response
    \* ---- POST /api/test-burn, POST /api/transfer-usdc (server.js 710-879) ----
    trPc,           \* control position of the request
    trRoute,        \* "test-burn" | "transfer-usdc"
    trWalletAddress, \* req.body.walletAddress
    trChain,        \* req.body.chain
    trAmount,       \* req.body.amount, character by character
    trObserver,     \* what the onStep handed to the SDK does
    trAmountBigInt, \* let amountBigInt
    trAttempt,      \* runWithRetries: let attempt
    trSlept,        \* the delays slept so far, in order (ms)
    trRun,          \* the SDK call in progress: steps notified, hashes
    trSdkCalls,     \* the arguments of the SDK calls made so far
    trOutcomes,     \* how each SDK call ended: the stage that failed, or "none"
    trCounts,       \* burn and mint transactions confirmed so far
    trResponse,     \* the HTTP response
    \* ---- requests in flight together ----
    ccProc,         \* per request: its kind, control position, outcome
    ccFrames,       \* per activation record: let attempts of the loops
    \* ---- TransferOnlyWallet and the USDC token (part_001 98-206) ----
    twDestination,  \* address public destination
    twBalances,     \* USDC balance of every account
    twLast,         \* the last call of the wallet: its arguments and effects
    \* ---- the store: monomausers, monomarequests (server.js 153-199) ----
    stUsers,        \* rows of monomausers, in insertion order
    stRequests,     \* rows of monomarequests, in insertion order
    stClock,        \* CURRENT_TIMESTAMP, as a count of statements
    stOps,          \* per HTTP request in flight: route, body, position
    \* ---- the pay page (Web/app/home/page.tsx 700-1089) ----
    pgStorage,      \* localStorage: the three keys of the payid
    pgTabs,         \* per open page: refs, state, payment in flight
    pgNow           \* Date.now(), in units of 5 s

retryVars == <<rwPc, rwAttempt, rwMaxAttempts, rwBaseDelayMs, rwLastErr,
               rwOutcomes, rwSlept, rwResult>>

attestVars == <<faPc, faAttempts, faWaited, faPolls, faResponse, faReadyAt,
                faErrors, faResult>>

chainVars == <<chEvents, chPending, chAged, chOwner>>

walletVars == <<wpFn, wpChain, wpArg, wpPc, wpAttempts, wpTx, wpStats, clCalls,
                clBudget>>

burnVars == <<brPc, brChain, brWalletAddress, brAmount, brAttempt, brLastErr,
              brInvoked, brSlept, brBurnTxs, brBurnsConfirmed, brMintTxs,
              brMintsConfirmed, brTx, brAttestKey, brAttestation, brMintTx, brResponse>>

batchVars == <<baPc, baDestination, baAvalancheAddress, baIndex, baLines, baCalls,
               baResponse>>

transferVars == <<trPc, trRoute, trWalletAddress, trChain, trAmount, trObserver,
                  trAmountBigInt, trAttempt, trSlept, trRun, trSdkCalls, trOutcomes,
                  trCounts, trResponse>>

concVars == <<ccProc, ccFrames>>

tokenVars == <<twDestination, twBalances, twLast>>

storeVars == <<stUsers, stRequests, stClock, stOps>>

pageVars == <<pgStorage, pgTabs, pgNow>>

\* The contract, the store and the page are apart from the orchestration.
apartVars == <<tokenVars, storeVars, pageVars>>

vars == <<retryVars, attestVars, chainVars, walletVars, burnVars, batchVars,
          transferVars, concVars, tokenVars, storeVars, pageVars>>

\* What a step of one component leaves alone.
RetryFrame ==
    UNCHANGED <<attestVars, chainVars, walletVars, burnVars, batchVars, transferVars, concVars, apartVars>>
AttestFrame ==
    UNCHANGED <<retryVars, chainVars, walletVars, burnVars, batchVars, transferVars, concVars, apartVars>>
WalletFrame ==
    UNCHANGED <<retryVars, attestVars, clBudget, burnVars, batchVars, transferVars, concVars, apartVars>>
BurnFrame == UNCHANGED <<retryVars, chainVars, walletVars, batchVars, transferVars, concVars, apartVars>>
BatchFrame ==
    UNCHANGED <<retryVars, attestVars, chainVars, walletVars, burnVars, transferVars, concVars, apartVars>>
TransferFrame ==
    UNCHANGED <<retryVars, attestVars, chainVars, walletVars, burnVars, batchVars, concVars, apartVars>>
ConcFrame ==
    UNCHANGED <<retryVars, attestVars, walletVars, burnVars, batchVars, transferVars, apartVars>>
OrchestrationVars ==
    <<retryVars, attestVars, chainVars, walletVars, burnVars, batchVars, transferVars, concVars>>
TokenFrame == UNCHANGED <<OrchestrationVars, storeVars, pageVars>>
StoreFrame == UNCHANGED <<OrchestrationVars, tokenVars, pageVars>>
PageFrame == UNCHANGED <<OrchestrationVars, tokenVars, storeVars>>

\* JavaScript's undefined: an unset variable, a missing property.
Undefined == "undefined"

\* The characters of a string of the model.
Chars(s) ==
    CASE s = "1000000" -> <<"1", "0", "0", "0", "0", "0", "0">>
      [] s = "1.5" -> <<"1", ".", "5">>
      [] s = "0" -> <<"0">>
      [] s = "0.0000001" -> <<"0", ".", "0", "0", "0", "0", "0", "0", "1">>
      [] s = "." -> <<".">>
      [] OTHER -> <<>>

\* amount.includes('.')
Includes(s, c) == \E i \in 1..Len(s) : s[i] = c

RECURSIVE SumSeq(_)
SumSeq(s) == IF s = <<>> THEN 0 ELSE Head(s) + SumSeq(Tail(s))

RECURSIVE SumTo(_)
SumTo(n) == IF n <= 0 THEN 0 ELSE n + SumTo(n - 1)

(***************************************************************************)
(* runWithRetries                                                          *)
(***************************************************************************)

\* Largest maxAttempts a caller passes in the model.
MaxAttemptsBound == 4

\* maxAttempts of the call sites (default 3; 5 and 3 at the routes), and 0,
\* which the signature does not forbid.
MaxAttemptsChoices == 0..MaxAttemptsBound

\* baseDelayMs of the call sites: 500 (line 680), 1000 (default, line 702),
\* 2000 (line 870).
BaseDelayChoices == {500, 1000, 2000}

\* Failures an action may raise, and values it may return.
ActionErrors == {"errA", "errB"}
ActionValues == {"valA", "valB"}

\* while (attempt < maxAttempts)
RetryLoopCond(attempt, maxAttempts) == attempt < maxAttempts

RetryExhaustedOffByOne(attempt, maxAttempts) == attempt >= maxAttempts - 1

RetryExhaustedLate(attempt, maxAttempts) == attempt > maxAttempts

\* if (attempt >= maxAttempts) break;
RetryExhausted(attempt, maxAttempts) == attempt >= maxAttempts

RetryDelayConstant(baseDelayMs, attempt) == baseDelayMs

\* const delay = baseDelayMs * attempt;
RetryDelay(baseDelayMs, attempt) == baseDelayMs * attempt

RetryInit ==
    /\ rwPc = "loop"
    /\ rwAttempt = 0
    /\ rwMaxAttempts \in MaxAttemptsChoices
    /\ rwBaseDelayMs \in BaseDelayChoices
    /\ rwLastErr = Undefined
    /\ rwOutcomes = <<>>
    /\ rwSlept = <<>>
    /\ rwResult = Undefined

\* The components a specification does not exercise.
RetryIdle ==
    /\ rwPc = "idle"
    /\ rwAttempt = 0
    /\ rwMaxAttempts = 0
    /\ rwBaseDelayMs = 0
    /\ rwLastErr = Undefined
    /\ rwOutcomes = <<>>
    /\ rwSlept = <<>>
    /\ rwResult = Undefined

\* while (attempt < maxAttempts) { try { attempt++; return await action();
RW_Invoke ==
    /\ rwPc = "loop"
    /\ RetryLoopCond(rwAttempt, rwMaxAttempts)
    /\ rwAttempt' = rwAttempt + 1
    /\ rwPc' = "action"
    /\ UNCHANGED <<rwMaxAttempts, rwBaseDelayMs, rwLastErr, rwOutcomes, rwSlept, rwResult>>
    /\ RetryFrame

\* The loop condition is false on entry: fall through to throw lastErr.
RW_LoopExit ==
    /\ rwPc = "loop"
    /\ ~RetryLoopCond(rwAttempt, rwMaxAttempts)
    /\ rwPc' = "exit"
    /\ UNCHANGED <<rwAttempt, rwMaxAttempts, rwBaseDelayMs, rwLastErr, rwOutcomes, rwSlept, rwResult>>
    /\ RetryFrame

\* action() resolves: return its value.
RW_ActionReturns ==
    /\ rwPc = "action"
    /\ \E v \in ActionValues :
        /\ rwResult' = v
        /\ rwOutcomes' = Append(rwOutcomes, v)
    /\ rwPc' = "returned"
    /\ UNCHANGED <<rwAttempt, rwMaxAttempts, rwBaseDelayMs, rwLastErr, rwSlept>>
    /\ RetryFrame

\* action() rejects: catch (err) { lastErr = err; if (attempt >= maxAttempts) break;
RW_ActionThrows ==
    /\ rwPc = "action"
    /\ \E e \in ActionErrors :
        /\ rwLastErr' = e
        /\ rwOutcomes' = Append(rwOutcomes, e)
    /\ rwPc' = IF RetryExhausted(rwAttempt, rwMaxAttempts) THEN "exit" ELSE "sleep"
    /\ UNCHANGED <<rwAttempt, rwMaxAttempts, rwBaseDelayMs, rwSlept, rwResult>>
    /\ RetryFrame

\* const delay = baseDelayMs * attempt; await new Promise(r => setTimeout(r, delay));
RW_Sleep ==
    /\ rwPc = "sleep"
    /\ rwSlept' = Append(rwSlept, RetryDelay(rwBaseDelayMs, rwAttempt))
    /\ rwPc' = "loop"
    /\ UNCHANGED <<rwAttempt, rwMaxAttempts, rwBaseDelayMs, rwLastErr, rwOutcomes, rwResult>>
    /\ RetryFrame

\* throw lastErr;
RW_Throw ==
    /\ rwPc = "exit"
    /\ rwResult' = rwLastErr
    /\ rwPc' = "thrown"
    /\ UNCHANGED <<rwAttempt, rwMaxAttempts, rwBaseDelayMs, rwLastErr, rwOutcomes, rwSlept>>
    /\ RetryFrame

NextRetry ==
    \/ RW_Invoke
    \/ RW_LoopExit
    \/ RW_ActionReturns
    \/ RW_ActionThrows
    \/ RW_Sleep
    \/ RW_Throw

(***************************************************************************)
(* fetchAttestation                                                        *)
(***************************************************************************)

\* const maxAttempts = 10;
AttestationMaxAttempts == 10

\* Wait 10 seconds before first attempt, then 5 seconds between retries.
FirstPollWaitMs == 10000
NextPollWaitMs == 5000

\* Longest messages list a response of the attestation service carries.
MaxMessages == 2

\* One entry of data.messages: { attestation, message, status }.
MessageEntries ==
    [status : {"pending", "complete"},
     attestation : {Undefined, "", "0xa1"},
     message : {"0xm1", "0xm2"}]

RECURSIVE SeqsUpTo(_, _)
SeqsUpTo(S, n) ==
    IF n = 0 THEN {<<>>}
    ELSE LET shorter == SeqsUpTo(S, n - 1)
         IN  shorter \cup {Append(q, x) : q \in {r \in shorter : Len(r) = n - 1}, x \in S}

\* What one poll can produce.  kind "messages": a JSON body with a messages
\* list; "nomessages": a JSON body without the messages property (the
\* service's not-found body); "neterr": fetch(url) rejects; "badjson":
\* response.json() rejects; "nullbody": the body is JSON null, so that
\* data.messages raises a TypeError inside the try block.
PollResponses ==
    {[kind |-> "messages", messages |-> m] : m \in SeqsUpTo(MessageEntries, MaxMessages)}
    \cup {[kind |-> k, messages |-> <<>>] : k \in {"nomessages", "neterr", "badjson", "nullbody"}}

\* The polls of a burn request are answered from a short list: an answer
\* with one entry that carries an attestation, complete or still pending,
\* the not-found body, and a failing fetch.
RoutePollResponses ==
    {r \in PollResponses :
        \/ r.kind \in {"nomessages", "neterr"}
        \/ /\ r.kind = "messages"
           /\ Len(r.messages) = 1
           /\ r.messages[1].attestation = "0xa1"}

\* What the attestation service can answer to the poll in progress.
ServiceResponses == IF brPc = "attest" THEN RoutePollResponses ELSE PollResponses

\* The outcomes that reach the catch block.
PollRaises(r) == r.kind \in {"neterr", "badjson", "nullbody"}

\* JavaScript truthiness of a string-or-undefined property.
Truthy(x) == x \notin {Undefined, ""}

EntryReady(e) == Truthy(e.attestation) /\ e.status = "complete"

ResponseReadyAnyEntry(r) ==
    /\ r.kind = "messages"
    /\ \E i \in 1..Len(r.messages) : EntryReady(r.messages[i])

ResponseReadyStatusOnly(r) ==
    /\ r.kind = "messages"
    /\ Len(r.messages) > 0
    /\ r.messages[1].status = "complete"

\* if (data.messages && data.messages.length > 0) { const message = data.messages[0];
\*   if (message.attestation && message.status === 'complete') {
ResponseReady(r) ==
    /\ r.kind = "messages"
    /\ Len(r.messages) > 0
    /\ LET message == r.messages[1]
       IN  Truthy(message.attestation) /\ message.status = "complete"

\* return { attestation: message.attestation, message: message.message, status: message.status };
AttestationOf(r) ==
    LET message == r.messages[1]
    IN  [kind |-> "ok", attestation |-> message.attestation,
         message |-> message.message, status |-> message.status]

AttestationFailure(name) ==
    [kind |-> "error", attestation |-> Undefined, message |-> name, status |-> Undefined]

NoAttestationResult ==
    [kind |-> "none", attestation |-> Undefined, message |-> Undefined, status |-> Undefined]

\* new Error('Failed to fetch attestation after maximum attempts')
AttestationTimeout == AttestationFailure("Failed to fetch attestation after maximum attempts")

NoResponse == [kind |-> "none", messages |-> <<>>]

PollLoopCondOneMore(attempts) == attempts <= AttestationMaxAttempts

\* while (attempts < maxAttempts)
PollLoopCond(attempts) == attempts < AttestationMaxAttempts

PollWaitMsFlat(attempts) == NextPollWaitMs

\* if (attempts === 1) wait 10000 else wait 5000
PollWaitMs(attempts) == IF attempts = 1 THEN FirstPollWaitMs ELSE NextPollWaitMs

AttestInit ==
    /\ faPc = "loop"
    /\ faAttempts = 0
    /\ faWaited = 0
    /\ faPolls = 0
    /\ faResponse = NoResponse
    /\ faReadyAt = {}
    /\ faErrors = 0
    /\ faResult = NoAttestationResult

AttestIdle ==
    /\ faPc = "idle"
    /\ faAttempts = 0
    /\ faWaited = 0
    /\ faPolls = 0
    /\ faResponse = NoResponse
    /\ faReadyAt = {}
    /\ faErrors = 0
    /\ faResult = NoAttestationResult

\* while (attempts < maxAttempts) { try { attempts++;
FA_Attempt ==
    /\ faPc = "loop"
    /\ PollLoopCond(faAttempts)
    /\ faAttempts' = faAttempts + 1
    /\ faPc' = "wait"
    /\ faResponse' = NoResponse
    /\ UNCHANGED <<faWaited, faPolls, faReadyAt, faErrors, faResult>>
    /\ AttestFrame

\* await new Promise(r => setTimeout(r, attempts === 1 ? 10000 : 5000));
FA_Wait ==
    /\ faPc = "wait"
    /\ faWaited' = faWaited + PollWaitMs(faAttempts)
    /\ faPc' = "fetch"
    /\ UNCHANGED <<faAttempts, faPolls, faResponse, faReadyAt, faErrors, faResult>>
    /\ AttestFrame

\* fetch + json succeed and the response is ready: return the attestation.
FA_PollReady ==
    /\ faPc = "fetch"
    /\ \E r \in ServiceResponses :
        /\ ~PollRaises(r)
        /\ ResponseReady(r)
        /\ faResponse' = r
        /\ faResult' = AttestationOf(r)
    /\ faPolls' = faPolls + 1
    /\ faReadyAt' = faReadyAt \cup {faAttempts}
    /\ faPc' = "returned"
    /\ UNCHANGED <<faAttempts, faWaited, faErrors>>
    /\ AttestFrame

\* fetch + json succeed and the response is not ready: log, next iteration.
FA_PollNotReady ==
    /\ faPc = "fetch"
    /\ \E r \in ServiceResponses :
        /\ ~PollRaises(r)
        /\ ~ResponseReady(r)
        /\ faResponse' = r
    /\ faPolls' = faPolls + 1
    /\ faPc' = "loop"
    /\ UNCHANGED <<faAttempts, faWaited, faReadyAt, faErrors, faResult>>
    /\ AttestFrame

PollErrorNeverRethrown(attempts) == FALSE

PollErrorAlwaysRethrown(attempts) == TRUE

\* catch (error) { ...; if (attempts >= maxAttempts) throw error; }
PollErrorRethrown(attempts) == attempts >= AttestationMaxAttempts

\* catch (error) { if (attempts >= maxAttempts) throw error; }
FA_PollError ==
    /\ faPc = "fetch"
    /\ \E r \in ServiceResponses :
        /\ PollRaises(r)
        /\ faResponse' = r
        /\ IF PollErrorRethrown(faAttempts)
           THEN faPc' = "thrown" /\ faResult' = AttestationFailure(r.kind)
           ELSE faPc' = "loop" /\ faResult' = faResult
    /\ faPolls' = faPolls + 1
    /\ faErrors' = faErrors + 1
    /\ UNCHANGED <<faAttempts, faWaited, faReadyAt>>
    /\ AttestFrame

\* throw new Error('Failed to fetch attestation after maximum attempts');
FA_Timeout ==
    /\ faPc = "loop"
    /\ ~PollLoopCond(faAttempts)
    /\ faResult' = AttestationTimeout
    /\ faPc' = "thrown"
    /\ UNCHANGED <<faAttempts, faWaited, faPolls, faResponse, faReadyAt, faErrors>>
    /\ AttestFrame

NextAttest ==
    \/ FA_Attempt
    \/ FA_Wait
    \/ FA_PollReady
    \/ FA_PollNotReady
    \/ FA_PollError
    \/ FA_Timeout

(***************************************************************************)
(* The factories (src/unnamed/part_001) and the chains they live on        *)
(***************************************************************************)

\* Creation transactions the nodes take in all; further submissions fail.
MaxTxs == 2

\* queryFilter(filter, -50) / queryFilter(filter, -20)
LookbackExisting == 50
LookbackRecovery == 20

\* The factories the server binds: AVALANCHE_TRANSFER_CONFIG.factory and
\* CHAIN_CONFIGS[k].factory, named by k.
TransferFactory == "transfer"
BurnFactories == {"arbitrum", "base", "avalanche"}
Factories == {TransferFactory} \cup BurnFactories

\* The address of the operator's signer, and another account.
Operator == "operator"
OwnerAnswers == {Operator, "other"}

\* A creation transaction: createSingleWallet(destination) on the transfer
\* factory, createSingleWallet(1, mintRecipient) on a burn factory.  call is
\* the number of the provisioning call that sent it (0: somebody else).
CreationTx(id, factory, key, call) ==
    [id |-> id, factory |-> factory, key |-> key, call |-> call]

\* The transactions the calls of the model have sent.
SentByCalls ==
    Cardinality({i \in 1..Len(chEvents) : chEvents[i].call # 0})
    + Cardinality({i \in 1..Len(chPending) : chPending[i].call # 0})

\* Transactions are numbered in the order they reach a node.
NextTxId == Len(chEvents) + Len(chPending) + 1

\* _createWallet / createBurnWallet: deploy a new wallet contract, push it to
\* deployedWallets, emit WalletCreated(wallet, destination | domain, recipient).
\* The deployed address is new with every deployment.
WalletCreatedEvent(tx) ==
    [wallet |-> Len(chEvents) + 1, factory |-> tx.factory, key |-> tx.key,
     tx |-> tx.id, call |-> tx.call]

\* The operator's transactions on one chain are mined in nonce order.
FirstPendingOf(f) ==
    LET idx == {i \in 1..Len(chPending) : chPending[i].factory = f}
    IN  IF idx = {} THEN 0 ELSE CHOOSE i \in idx : \A j \in idx : i <= j

RemoveAt(q, i) == [j \in 1..(Len(q) - 1) |-> IF j < i THEN q[j] ELSE q[j + 1]]

\* A pending creation transaction is mined: the factory runs createSingleWallet.
\* Neither factory restricts the caller of createSingleWallet.
MineTx ==
    /\ \E f \in Factories :
        LET i == FirstPendingOf(f) IN
        /\ i # 0
        /\ chEvents' = Append(chEvents, WalletCreatedEvent(chPending[i]))
        /\ chPending' = RemoveAt(chPending, i)
    /\ UNCHANGED <<chAged, chOwner>>

\* Blocks go by.  Block numbers are followed only as far as queryFilter
\* tells them apart: chAged[w] is the number of events, oldest first, that
\* lie more than w blocks back.  An event leaves the 20-block window before
\* it leaves the 50-block window, and older events leave first.
BlocksPass ==
    /\ \E a20 \in chAged[LookbackRecovery]..Len(chEvents) :
       \E a50 \in chAged[LookbackExisting]..a20 :
        /\ <<a20, a50>> # <<chAged[LookbackRecovery], chAged[LookbackExisting]>>
        /\ chAged' = [chAged EXCEPT ![LookbackRecovery] = a20, ![LookbackExisting] = a50]
    /\ UNCHANGED <<chEvents, chPending, chOwner>>

\* factory.queryFilter(filter, -window): the WalletCreated events of the
\* transfer factory in the last `window` blocks, oldest first; key "any" is
\* filters.WalletCreated() with no argument, any other key is
\* filters.WalletCreated(null, destination).
QueryFilter(key, window) ==
    LET idx == {i \in 1..Len(chEvents) :
                   /\ i > chAged[window]
                   /\ chEvents[i].factory = TransferFactory
                   /\ (key = "any" \/ chEvents[i].key = key)}
    IN  [n \in 1..Cardinality(idx) |->
            chEvents[CHOOSE i \in idx : Cardinality({j \in idx : j <= i}) = n]]

IsMined(txid) == \E i \in 1..Len(chEvents) : chEvents[i].tx = txid

EventOfTx(txid) == chEvents[CHOOSE i \in 1..Len(chEvents) : chEvents[i].tx = txid]

NothingAged == [w \in {LookbackRecovery, LookbackExisting} |-> 0]

\* owner() of a factory is fixed; it is learnt with the first answer.
ChainInit ==
    /\ chEvents = <<>>
    /\ chPending = <<>>
    /\ chAged = NothingAged
    /\ chOwner = [f \in Factories |-> "unknown"]

ChainIdle ==
    /\ chEvents = <<>>
    /\ chPending = <<>>
    /\ chAged = NothingAged
    /\ chOwner = [f \in Factories |-> "unknown"]

(***************************************************************************)
(* createWalletOnChain, createAvalancheTransferWallet and their route      *)
(***************************************************************************)

\* Calls the caller makes, one after the other.
MaxCalls == 2

\* const CHAIN_CONFIGS = { arbitrum: ..., base: ..., avalanche: ... }
ChainConfigKeys == {"arbitrum", "base", "avalanche"}

\* CHAIN_CONFIGS is an object literal: a key it does not own is looked up on
\* Object.prototype.  Of the members of Object.prototype these are the ones
\* a lower-cased route parameter can name.
ObjectPrototypeKeys == {"constructor", "__proto__"}

\* :chain values of POST /api/create-wallet/:chain in the model, after
\* toLowerCase(): the transfer chain, two burn chains, a chain that is
\* configured for burning only, and a member of Object.prototype.
RouteChains == {"avalanche", "arbitrum", "base", "eth", "constructor"}

\* req.body.destination / req.body.mintRecipient
Destinations == {"dA", "dB"}
Recipients == {"rA"}

ErrUnsupported == "Unsupported chain"
ErrNotOwner == "Not factory owner"
ErrNetwork == "network error"
ErrAlreadyKnown == "already known"
ErrInvalidTarget == "invalid value for Contract target"
ErrNoEvent == "Wallet creation failed - no event found"

\* const cfg = CHAIN_CONFIGS[chainKey];  "inherited" is a member of
\* Object.prototype: truthy, with rpc, factory and label undefined.
ChainConfigLookup(chainKey) ==
    IF chainKey \in ChainConfigKeys THEN "config"
    ELSE IF chainKey \in ObjectPrototypeKeys THEN "inherited"
    ELSE Undefined

\* The factory a call binds: cfg.factory.
FactoryOf(fn, chainKey) ==
    IF fn = "transferWallet" THEN TransferFactory
    ELSE IF chainKey \in ChainConfigKeys THEN chainKey
    ELSE Undefined

WalletMaxAttemptsSame(fn) == 6

\* const maxAttempts = 6;  /  const maxAttempts = 3; // Reduced attempts
WalletMaxAttempts(fn) == IF fn = "transferWallet" THEN 3 ELSE 6

WalletBackoffMsFlat(fn, attempts) == IF fn = "transferWallet" THEN 3000 * attempts ELSE 1500

\* const backoffMs = 1500 * attempts;  /  const backoffMs = 3000 * attempts;
WalletBackoffMs(fn, attempts) ==
    IF fn = "transferWallet" THEN 3000 * attempts ELSE 1500 * attempts

\* await new Promise(r => setTimeout(r, 10000)); after "already known"
AlreadyKnownWaitMs == 10000

\* owner.toLowerCase() !== signer.address.toLowerCase()
IsSigner(owner) == owner = Operator

\* What owner() of a factory can answer.
OwnerOf(f) == IF chOwner[f] = "unknown" THEN OwnerAnswers ELSE {chOwner[f]}

ErrorIsRetriedTransportOnly(err) == err # ErrNoEvent

\* catch (err) { ... // Retry on ANY error type
ErrorIsRetried(err) == TRUE

LookbackFindsNever(events) == FALSE

\* if (events.length > 0) return events[events.length - 1].args.wallet
LookbackFinds(events) == Len(events) > 0

\* What a call has done so far.  rpc: a request was sent to a node;
\* ownerQueries: owner() calls; notOwner: "Not factory owner" was raised;
\* submits: createSingleWallet calls; delivered: of these, the transactions a
\* node took in; slept: milliseconds of setTimeout; lookback: how the check
\* for an existing wallet ended, sawPrior: whether an event of the call
\* before was inside its window; path: how the address was obtained;
\* noEvent: receipts in which no WalletCreated log was found.
NoStats ==
    [rpc |-> FALSE, ownerQueries |-> 0, notOwner |-> FALSE, submits |-> 0,
     delivered |-> 0, slept |-> 0, lookback |-> "none", sawPrior |-> FALSE,
     path |-> "none", err |-> Undefined, noEvent |-> 0]

\* The record the caller keeps of a finished call.
CallRecord(outcome, value, error, stats) ==
    [fn |-> wpFn, chain |-> wpChain, arg |-> wpArg, attempts |-> wpAttempts,
     outcome |-> outcome, value |-> value, error |-> error, stats |-> stats]

\* return walletAddress;  /  throw err;
Finish(outcome, value, error, stats) ==
    /\ clCalls' = Append(clCalls, CallRecord(outcome, value, error, stats))
    /\ wpFn' = "none"
    /\ wpChain' = "none"
    /\ wpArg' = "none"
    /\ wpPc' = "idle"
    /\ wpAttempts' = 0
    /\ wpTx' = 0
    /\ wpStats' = NoStats

\* if (attempts >= maxAttempts) throw err;
\* const backoffMs = ...; await new Promise(r => setTimeout(r, backoffMs));
Backoff(err, stats) ==
    IF wpAttempts >= WalletMaxAttempts(wpFn) \/ ~ErrorIsRetried(err)
    THEN Finish("thrown", 0, err, stats)
    ELSE /\ wpPc' = "loop"
         /\ wpStats' = [stats EXCEPT !.slept = @ + WalletBackoffMs(wpFn, wpAttempts)]
         /\ wpTx' = 0
         /\ UNCHANGED <<wpFn, wpChain, wpArg, wpAttempts, clCalls>>

\* The catch block of an attempt.  createAvalancheTransferWallet first
\* handles err.message.includes("already known"): wait 10 s, then re-scan.
Caught(err, stats) ==
    IF wpFn = "transferWallet" /\ err = ErrAlreadyKnown
    THEN /\ wpPc' = "recover"
         /\ wpStats' = [stats EXCEPT !.slept = @ + AlreadyKnownWaitMs, !.err = err]
         /\ wpTx' = 0
         /\ UNCHANGED <<wpFn, wpChain, wpArg, wpAttempts, clCalls>>
    ELSE Backoff(err, stats)

WalletInit ==
    /\ wpFn = "none"
    /\ wpChain = "none"
    /\ wpArg = "none"
    /\ wpPc = "idle"
    /\ wpAttempts = 0
    /\ wpTx = 0
    /\ wpStats = NoStats
    /\ clCalls = <<>>

\* POST /api/create-wallet/:chain: 'avalanche' creates the transfer wallet
\* for body.destination, any other chain a burn wallet for body.mintRecipient.
StartCall ==
    /\ wpFn = "none"
    /\ Len(clCalls) < clBudget
    /\ \E chain \in RouteChains :
        IF chain = "avalanche"
        THEN /\ wpFn' = "transferWallet"
             /\ wpChain' = chain
             /\ wpArg' \in Destinations
             /\ wpPc' = "lookback"
        ELSE /\ wpFn' = "burnWallet"
             /\ wpChain' = chain
             /\ wpArg' \in Recipients
             /\ wpPc' = "config"
    /\ UNCHANGED <<wpAttempts, wpTx, wpStats, clCalls, chainVars>>
    /\ WalletFrame

\* if (!cfg) throw new Error(`Unsupported chain ${chainKey}. ...`);
WP_UnsupportedChain ==
    /\ wpPc = "config"
    /\ ChainConfigLookup(wpChain) = Undefined
    /\ Finish("thrown", 0, ErrUnsupported, wpStats)
    /\ UNCHANGED chainVars
    /\ WalletFrame

WP_ConfigFound ==
    /\ wpPc = "config"
    /\ ChainConfigLookup(wpChain) # Undefined
    /\ wpPc' = "loop"
    /\ UNCHANGED <<wpFn, wpChain, wpArg, wpAttempts, wpTx, wpStats, clCalls, chainVars>>
    /\ WalletFrame

\* An event that a transaction of the call before this one caused, for this
\* call's destination, lies in the lookback window now.
PriorEventInWindow ==
    \E i \in 1..Len(chEvents) :
        /\ chEvents[i].call = Len(clCalls)
        /\ chEvents[i].factory = TransferFactory
        /\ chEvents[i].key = wpArg
        /\ i > chAged[LookbackExisting]

\* const events = await factory.queryFilter(filter, -50); events.length > 0
WP_LookbackFound ==
    /\ wpPc = "lookback"
    /\ LET events == QueryFilter(wpArg, LookbackExisting)
           stats == [wpStats EXCEPT !.rpc = TRUE, !.lookback = "found",
                                    !.sawPrior = PriorEventInWindow, !.path = "lookback"]
       IN  /\ LookbackFinds(events)
           /\ Finish("returned", events[Len(events)].wallet, Undefined, stats)
    /\ UNCHANGED chainVars
    /\ WalletFrame

WP_LookbackEmpty ==
    /\ wpPc = "lookback"
    /\ ~LookbackFinds(QueryFilter(wpArg, LookbackExisting))
    /\ wpStats' = [wpStats EXCEPT !.rpc = TRUE, !.lookback = "empty"]
    /\ wpPc' = "loop"
    /\ UNCHANGED <<wpFn, wpChain, wpArg, wpAttempts, wpTx, clCalls, chainVars>>
    /\ WalletFrame

LookbackFailureSurfaces == TRUE

\* The catch block of the lookback has no throw.
LookbackFailureRaised == FALSE

\* catch (e) { console.log(`Could not check existing wallets, proceeding ...`) }
WP_LookbackFails ==
    /\ wpPc = "lookback"
    /\ LET stats == [wpStats EXCEPT !.rpc = TRUE, !.lookback = "failed",
                                    !.sawPrior = PriorEventInWindow]
       IN  IF LookbackFailureRaised
           THEN /\ Finish("thrown", 0, ErrNetwork, stats)
                /\ UNCHANGED chainVars
           ELSE /\ wpStats' = stats
                /\ wpPc' = "loop"
                /\ UNCHANGED <<wpFn, wpChain, wpArg, wpAttempts, wpTx, clCalls, chainVars>>
    /\ WalletFrame

\* while (attempts < maxAttempts) { try { attempts++;
WP_Attempt ==
    /\ wpPc = "loop"
    /\ wpAttempts < WalletMaxAttempts(wpFn)
    /\ wpAttempts' = wpAttempts + 1
    /\ wpPc' = "construct"
    /\ UNCHANGED <<wpFn, wpChain, wpArg, wpTx, wpStats, clCalls, chainVars>>
    /\ WalletFrame

\* new ethers.JsonRpcProvider(cfg.rpc); new ethers.Wallet(PRIVATE_KEY, provider);
\* new ethers.Contract(cfg.factory, ABI, signer): no request is sent yet.
WP_Construct ==
    /\ wpPc = "construct"
    /\ FactoryOf(wpFn, wpChain) # Undefined
    /\ wpPc' = "owner"
    /\ UNCHANGED <<wpFn, wpChain, wpArg, wpAttempts, wpTx, wpStats, clCalls, chainVars>>
    /\ WalletFrame

\* cfg.factory is undefined: new ethers.Contract(undefined, ...) throws inside
\* the try block, before any request.
WP_ConstructThrows ==
    /\ wpPc = "construct"
    /\ FactoryOf(wpFn, wpChain) = Undefined
    /\ Caught(ErrInvalidTarget, wpStats)
    /\ UNCHANGED chainVars
    /\ WalletFrame

\* const owner = await factory.owner(); the owner is the signer.
WP_OwnerOk ==
    /\ wpPc = "owner"
    /\ \E owner \in OwnerOf(FactoryOf(wpFn, wpChain)) :
        /\ IsSigner(owner)
        /\ chOwner' = [chOwner EXCEPT ![FactoryOf(wpFn, wpChain)] = owner]
    /\ wpStats' = [wpStats EXCEPT !.rpc = TRUE, !.ownerQueries = @ + 1]
    /\ wpPc' = "submit"
    /\ UNCHANGED <<wpFn, wpChain, wpArg, wpAttempts, wpTx, clCalls, chEvents, chPending, chAged>>
    /\ WalletFrame

\* if (owner.toLowerCase() !== signer.address.toLowerCase())
\*   throw new Error("Not factory owner");
WP_OwnerMismatch ==
    /\ wpPc = "owner"
    /\ \E owner \in OwnerOf(FactoryOf(wpFn, wpChain)) :
        /\ ~IsSigner(owner)
        /\ chOwner' = [chOwner EXCEPT ![FactoryOf(wpFn, wpChain)] = owner]
    /\ Caught(ErrNotOwner, [wpStats EXCEPT !.rpc = TRUE, !.ownerQueries = @ + 1,
                                           !.notOwner = TRUE])
    /\ UNCHANGED <<chEvents, chPending, chAged>>
    /\ WalletFrame

\* await factory.owner() rejects (RPC failure).
WP_OwnerFails ==
    /\ wpPc = "owner"
    /\ Caught(ErrNetwork, [wpStats EXCEPT !.rpc = TRUE, !.ownerQueries = @ + 1])
    /\ UNCHANGED chainVars
    /\ WalletFrame

\* const tx = await factory.createSingleWallet(...): a node accepts the
\* transaction and the response arrives.
WP_SubmitAccepted ==
    /\ wpPc = "submit"
    /\ SentByCalls < MaxTxs
    /\ chPending' = Append(chPending,
            CreationTx(NextTxId, FactoryOf(wpFn, wpChain), wpArg, Len(clCalls) + 1))
    /\ wpTx' = NextTxId
    /\ wpStats' = [wpStats EXCEPT !.rpc = TRUE, !.submits = @ + 1, !.delivered = @ + 1]
    /\ wpPc' = "wait"
    /\ UNCHANGED <<wpFn, wpChain, wpArg, wpAttempts, clCalls, chEvents, chAged, chOwner>>
    /\ WalletFrame

\* The request fails before any node has the transaction.
WP_SubmitFails ==
    /\ wpPc = "submit"
    /\ Caught(ErrNetwork, [wpStats EXCEPT !.rpc = TRUE, !.submits = @ + 1])
    /\ UNCHANGED chainVars
    /\ WalletFrame

\* A node accepts the transaction but the response is lost.
WP_SubmitLost ==
    /\ wpPc = "submit"
    /\ SentByCalls < MaxTxs
    /\ chPending' = Append(chPending,
            CreationTx(NextTxId, FactoryOf(wpFn, wpChain), wpArg, Len(clCalls) + 1))
    /\ Caught(ErrNetwork, [wpStats EXCEPT !.rpc = TRUE, !.submits = @ + 1,
                                          !.delivered = @ + 1])
    /\ UNCHANGED <<chEvents, chAged, chOwner>>
    /\ WalletFrame

\* The node already holds the same transaction, delivered by an earlier
\* submission whose response was lost: it answers "already known".
WP_SubmitAlreadyKnown ==
    /\ wpPc = "submit"
    /\ \E i \in 1..Len(chPending) :
          /\ chPending[i].factory = FactoryOf(wpFn, wpChain)
          /\ chPending[i].key = wpArg
    /\ Caught(ErrAlreadyKnown, [wpStats EXCEPT !.rpc = TRUE, !.submits = @ + 1])
    /\ UNCHANGED chainVars
    /\ WalletFrame

\* const receipt = await tx.wait(); the WalletCreated log of the receipt is
\* parsed and parsed.args.wallet returned.
WP_WaitReceipt ==
    /\ wpPc = "wait"
    /\ IsMined(wpTx)
    /\ Finish("returned", EventOfTx(wpTx).wallet, Undefined,
              [wpStats EXCEPT !.rpc = TRUE, !.path = "created"])
    /\ UNCHANGED chainVars
    /\ WalletFrame

\* const receipt = await tx.wait(); receipt.logs.find(...) finds no log that
\* the ABI decodes as WalletCreated (cfg.factory is an address taken from
\* the environment): if (!eventLog) throw new Error("... no event found").
WP_WaitNoEvent ==
    /\ wpPc = "wait"
    /\ IsMined(wpTx)
    /\ Caught(ErrNoEvent, [wpStats EXCEPT !.rpc = TRUE, !.noEvent = @ + 1])
    /\ UNCHANGED chainVars
    /\ WalletFrame

\* await tx.wait() rejects (RPC failure while waiting), mined or not.
WP_WaitFails ==
    /\ wpPc = "wait"
    /\ Caught(ErrNetwork, [wpStats EXCEPT !.rpc = TRUE])
    /\ UNCHANGED chainVars
    /\ WalletFrame

\* const filter = factory.filters.WalletCreated();
\* const events = await factory.queryFilter(filter, -20); events.length > 0
WP_RecoverFound ==
    /\ wpPc = "recover"
    /\ LET events == QueryFilter("any", LookbackRecovery)
       IN  /\ Len(events) > 0
           /\ Finish("returned", events[Len(events)].wallet, Undefined,
                     [wpStats EXCEPT !.rpc = TRUE, !.path = "recovered"])
    /\ UNCHANGED chainVars
    /\ WalletFrame

\* No event in the last 20 blocks: // continue to next attempt
WP_RecoverEmpty ==
    /\ wpPc = "recover"
    /\ Len(QueryFilter("any", LookbackRecovery)) = 0
    /\ Backoff(wpStats.err, [wpStats EXCEPT !.rpc = TRUE])
    /\ UNCHANGED chainVars
    /\ WalletFrame

\* catch (e) { console.log(`Could not retrieve wallet from already known ...`) }
WP_RecoverFails ==
    /\ wpPc = "recover"
    /\ Backoff(wpStats.err, [wpStats EXCEPT !.rpc = TRUE])
    /\ UNCHANGED chainVars
    /\ WalletFrame

NextWallet ==
    \/ StartCall
    \/ WP_UnsupportedChain
    \/ WP_ConfigFound
    \/ WP_LookbackFound
    \/ WP_LookbackEmpty
    \/ WP_LookbackFails
    \/ WP_Attempt
    \/ WP_Construct
    \/ WP_ConstructThrows
    \/ WP_OwnerOk
    \/ WP_OwnerMismatch
    \/ WP_OwnerFails
    \/ WP_SubmitAccepted
    \/ WP_SubmitFails
    \/ WP_SubmitLost
    \/ WP_SubmitAlreadyKnown
    \/ WP_WaitReceipt
    \/ WP_WaitNoEvent
    \/ WP_WaitFails
    \/ WP_RecoverFound
    \/ WP_RecoverEmpty
    \/ WP_RecoverFails
    \/ (MineTx /\ UNCHANGED walletVars /\ WalletFrame)
    \/ (BlocksPass /\ UNCHANGED walletVars /\ WalletFrame)

WalletIdle ==
    /\ wpFn = "idle"
    /\ wpChain = "none"
    /\ wpArg = "none"
    /\ wpPc = "idle"
    /\ wpAttempts = 0
    /\ wpTx = 0
    /\ wpStats = NoStats
    /\ clCalls = <<>>
    /\ clBudget = 0

(***************************************************************************)
(* POST /api/burn-usdc/:chain, burnUSDCOnChain and mintOnArbitrum          *)
(* (server.js 423-485, 690-708)                                            *)
(***************************************************************************)

\* const BURN_CONFIGS = { eth: ..., base: ..., avalanche: ... }
BurnConfigKeys == {"eth", "base", "avalanche"}

\* :chain values of the requests in the model, after toLowerCase(): the
\* burn chains, the chain that is configured for wallet creation only, and
\* a member of Object.prototype.
BurnRouteChains == {"eth", "base", "avalanche", "arbitrum", "constructor"}

\* req.body.walletAddress, req.body.amount
BurnWalletAddresses == {Undefined, "0xw1"}
BurnAmounts == {Undefined, "1000000", "1.5"}

\* runWithRetries(handler, { maxAttempts: 5, baseDelayMs: 1000 })
BurnMaxAttempts == 5
BurnBaseDelayMs == 1000

ErrBadRequest == "walletAddress and amount are required"

\* const cfg = BURN_CONFIGS[chainKey];
BurnConfigLookup(chainKey) ==
    IF chainKey \in BurnConfigKeys THEN "config"
    ELSE IF chainKey \in ObjectPrototypeKeys THEN "inherited"
    ELSE Undefined

\* cfg.chainId
BurnChainId(chainKey) ==
    CASE chainKey = "eth" -> 0
      [] chainKey = "base" -> 6
      [] chainKey = "avalanche" -> 1
      [] OTHER -> -1

\* tx.hash of the n-th burnUSDC / receiveMessage transaction of the request.
NoHash == <<"none", 0>>
BurnHash(n) == <<"burn", n>>
MintHash(n) == <<"mint", n>>

\* The burnUSDC transaction of the current invocation: contract.burnUSDC(amount)
\* on the contract at walletAddress.
NoBurnTx == [hash |-> NoHash, wallet |-> Undefined, amount |-> Undefined]

\* fetchAttestation(cfg.chainId, tx.hash): the URL names the source domain
\* and the transaction hash.
NoAttestKey == [domain |-> -1, hash |-> NoHash]

AttestKeyWithoutDomain(chainId, transactionHash) ==
    [domain |-> 0, hash |-> transactionHash]

AttestKey(chainId, transactionHash) ==
    [domain |-> chainId, hash |-> transactionHash]

\* The receiveMessage transaction of the current invocation.
NoMintTx == [hash |-> NoHash, message |-> Undefined, attestation |-> Undefined]

MintCallSwapped(attestation, message) ==
    [message |-> attestation, attestation |-> message]

\* mintOnArbitrum(attestation, message) calls
\* contract.receiveMessage(message, attestation).
MintCall(attestation, message) ==
    [message |-> message, attestation |-> attestation]

\* receipt.gasUsed.toString()
GasUsed == "gasUsed"

\* return { chain: 'arbitrum', transactionHash: tx.hash, gasUsed: ... };
MintResult(mintTx) ==
    [chain |-> "arbitrum", transactionHash |-> mintTx.hash, gasUsed |-> GasUsed]

BurnResultMintHash(chainKey, burnTx, walletAddress, amount, attestationData, mintResult) ==
    [chain |-> chainKey, transactionHash |-> mintResult.transactionHash,
     gasUsed |-> GasUsed, walletAddress |-> walletAddress, amountBurned |-> amount,
     attestation |-> attestationData.attestation, arbitrumMint |-> mintResult]

\* return { chain: chainKey, transactionHash: tx.hash, gasUsed: ..., walletAddress,
\*          amountBurned: amount, attestation: attestationData.attestation,
\*          arbitrumMint: mintResult };
BurnResult(chainKey, burnTx, walletAddress, amount, attestationData, mintResult) ==
    [chain |-> chainKey, transactionHash |-> burnTx.hash, gasUsed |-> GasUsed,
     walletAddress |-> walletAddress, amountBurned |-> amount,
     attestation |-> attestationData.attestation, arbitrumMint |-> mintResult]

HandlerStatusAlwaysOk(outcome) == 200

\* res.json(result) when runWithRetries returns, res.status(500) when it throws.
HandlerStatus(outcome) == IF outcome = "returned" THEN 200 ELSE 500

NoBurnResponse == [status |-> 0, error |-> Undefined, body |-> Undefined]

\* res.json(result) / res.status(code).json({ error })
BurnRespond(status, error, body) ==
    /\ brPc' = "responded"
    /\ brResponse' = [status |-> status, error |-> error, body |-> body]

\* The handler raised err inside runWithRetries:
\*   lastErr = err; if (attempt >= maxAttempts) break; ... throw lastErr;
\*   const delay = baseDelayMs * attempt; await new Promise(r => setTimeout(r, delay));
\* and the route's catch answers 500 with error.message.
BurnCaught(err) ==
    /\ brLastErr' = err
    /\ IF RetryExhausted(brAttempt, BurnMaxAttempts)
       THEN /\ BurnRespond(HandlerStatus("thrown"), err, Undefined)
            /\ UNCHANGED brSlept
       ELSE /\ brPc' = "loop"
            /\ brSlept' = Append(brSlept, RetryDelay(BurnBaseDelayMs, brAttempt))
            /\ UNCHANGED brResponse

\* The parts of the request's state.
brInputs == <<brChain, brWalletAddress, brAmount>>
brCounts == <<brBurnTxs, brBurnsConfirmed, brMintTxs, brMintsConfirmed>>
brRun == <<brTx, brAttestKey, brAttestation, brMintTx>>

BurnInit ==
    /\ brPc = "idle"
    /\ brChain = "none"
    /\ brWalletAddress = Undefined
    /\ brAmount = Undefined
    /\ brAttempt = 0
    /\ brLastErr = Undefined
    /\ brInvoked = 0
    /\ brSlept = <<>>
    /\ brBurnTxs = 0
    /\ brBurnsConfirmed = 0
    /\ brMintTxs = 0
    /\ brMintsConfirmed = 0
    /\ brTx = NoBurnTx
    /\ brAttestKey = NoAttestKey
    /\ brAttestation = NoAttestationResult
    /\ brMintTx = NoMintTx
    /\ brResponse = NoBurnResponse

BurnIdle == BurnInit

\* A request arrives.
BR_Request ==
    /\ brPc = "idle"
    /\ brChain' \in BurnRouteChains
    /\ brWalletAddress' \in BurnWalletAddresses
    /\ brAmount' \in BurnAmounts
    /\ brPc' = "validate"
    /\ UNCHANGED <<brAttempt, brLastErr, brInvoked, brSlept, brCounts, brRun, brResponse>>
    /\ UNCHANGED attestVars
    /\ BurnFrame

\* if (!walletAddress || !amount) return res.status(400).json(...)
BR_BadRequest ==
    /\ brPc = "validate"
    /\ ~Truthy(brWalletAddress) \/ ~Truthy(brAmount)
    /\ BurnRespond(400, ErrBadRequest, Undefined)
    /\ UNCHANGED <<brInputs, brAttempt, brLastErr, brInvoked, brSlept, brCounts, brRun>>
    /\ UNCHANGED attestVars
    /\ BurnFrame

\* runWithRetries starts: let attempt = 0;
BR_Validated ==
    /\ brPc = "validate"
    /\ Truthy(brWalletAddress) /\ Truthy(brAmount)
    /\ brPc' = "loop"
    /\ UNCHANGED <<brInputs, brAttempt, brLastErr, brInvoked, brSlept, brCounts, brRun,
                   brResponse>>
    /\ UNCHANGED attestVars
    /\ BurnFrame

\* while (attempt < maxAttempts) { try { attempt++; return await action();
\* the action calls burnUSDCOnChain(chain, walletAddress, amount), whose
\* locals are new with every invocation.
BR_Invoke ==
    /\ brPc = "loop"
    /\ RetryLoopCond(brAttempt, BurnMaxAttempts)
    /\ brAttempt' = brAttempt + 1
    /\ brInvoked' = brInvoked + 1
    /\ brTx' = NoBurnTx
    /\ brAttestKey' = NoAttestKey
    /\ brAttestation' = NoAttestationResult
    /\ brMintTx' = NoMintTx
    /\ brPc' = "config"
    /\ UNCHANGED <<brInputs, brLastErr, brSlept, brCounts, brResponse>>
    /\ UNCHANGED attestVars
    /\ BurnFrame

\* if (!cfg) throw new Error(`Unsupported chain ${chainKey}. ...`);
BR_Unsupported ==
    /\ brPc = "config"
    /\ BurnConfigLookup(brChain) = Undefined
    /\ BurnCaught(ErrUnsupported)
    /\ UNCHANGED <<brInputs, brAttempt, brInvoked, brCounts, brRun>>
    /\ UNCHANGED attestVars
    /\ BurnFrame

BR_ConfigFound ==
    /\ brPc = "config"
    /\ BurnConfigLookup(brChain) # Undefined
    /\ brPc' = "burn"
    /\ UNCHANGED <<brInputs, brAttempt, brLastErr, brInvoked, brSlept, brCounts, brRun,
                   brResponse>>
    /\ UNCHANGED attestVars
    /\ BurnFrame

\* function burnUSDC(uint256 amount): ethers encodes the argument before
\* it sends anything, and raises on a string that is not an integer.
EncodesAsUint256(amount) == ~Includes(Chars(amount), ".")

\* const tx = await contract.burnUSDC(amount); a node of the chain takes it.
BR_BurnSubmitted ==
    /\ brPc = "burn"
    /\ BurnConfigLookup(brChain) = "config"
    /\ EncodesAsUint256(brAmount)
    /\ brBurnTxs' = brBurnTxs + 1
    /\ brTx' = [hash |-> BurnHash(brBurnTxs + 1), wallet |-> brWalletAddress,
                amount |-> brAmount]
    /\ brPc' = "wait"
    /\ UNCHANGED <<brInputs, brAttempt, brLastErr, brInvoked, brSlept, brBurnsConfirmed,
                   brMintTxs, brMintsConfirmed, brAttestKey, brAttestation, brMintTx,
                   brResponse>>
    /\ UNCHANGED attestVars
    /\ BurnFrame

\* contract.burnUSDC(amount) rejects: no node answers (the only outcome when
\* cfg.rpc is undefined), the call is refused, or the amount cannot be
\* encoded (the only outcome for a decimal string).
BR_BurnFails ==
    /\ brPc = "burn"
    /\ BurnCaught(ErrNetwork)
    /\ UNCHANGED <<brInputs, brAttempt, brInvoked, brCounts, brRun>>
    /\ UNCHANGED attestVars
    /\ BurnFrame

\* const receipt = await tx.wait(); then
\* const attestationData = await fetchAttestation(cfg.chainId, tx.hash);
BR_BurnConfirmed ==
    /\ brPc = "wait"
    /\ brBurnsConfirmed' = brBurnsConfirmed + 1
    /\ brAttestKey' = AttestKey(BurnChainId(brChain), brTx.hash)
    /\ brPc' = "attest"
    /\ faPc' = "loop"
    /\ faAttempts' = 0
    /\ faWaited' = 0
    /\ faPolls' = 0
    /\ faResponse' = NoResponse
    /\ faReadyAt' = {}
    /\ faErrors' = 0
    /\ faResult' = NoAttestationResult
    /\ UNCHANGED <<brInputs, brAttempt, brLastErr, brInvoked, brSlept, brBurnTxs,
                   brMintTxs, brMintsConfirmed, brTx, brAttestation, brMintTx, brResponse>>
    /\ BurnFrame

\* await tx.wait() rejects.
BR_BurnWaitFails ==
    /\ brPc = "wait"
    /\ BurnCaught(ErrNetwork)
    /\ UNCHANGED <<brInputs, brAttempt, brInvoked, brCounts, brRun>>
    /\ UNCHANGED attestVars
    /\ BurnFrame

\* fetchAttestation returned { attestation, message, status }.
BR_AttestationReturns ==
    /\ brPc = "attest"
    /\ faPc = "returned"
    /\ brAttestation' = faResult
    /\ brPc' = "mint"
    /\ UNCHANGED <<brInputs, brAttempt, brLastErr, brInvoked, brSlept, brCounts, brTx,
                   brAttestKey, brMintTx, brResponse>>
    /\ UNCHANGED attestVars
    /\ BurnFrame

\* fetchAttestation raised: its timeout, or the failure of its last poll.
BR_AttestationThrows ==
    /\ brPc = "attest"
    /\ faPc = "thrown"
    /\ BurnCaught(faResult.message)
    /\ UNCHANGED <<brInputs, brAttempt, brInvoked, brCounts, brRun>>
    /\ UNCHANGED attestVars
    /\ BurnFrame

\* mintOnArbitrum(attestationData.attestation, attestationData.message):
\* const tx = await contract.receiveMessage(message, attestation);
BR_MintSubmitted ==
    /\ brPc = "mint"
    /\ brMintTxs' = brMintTxs + 1
    /\ brMintTx' = [hash |-> MintHash(brMintTxs + 1)]
                   @@ MintCall(brAttestation.attestation, brAttestation.message)
    /\ brPc' = "mintwait"
    /\ UNCHANGED <<brInputs, brAttempt, brLastErr, brInvoked, brSlept, brBurnTxs,
                   brBurnsConfirmed, brMintsConfirmed, brTx, brAttestKey, brAttestation,
                   brResponse>>
    /\ UNCHANGED attestVars
    /\ BurnFrame

BR_MintFails ==
    /\ brPc = "mint"
    /\ BurnCaught(ErrNetwork)
    /\ UNCHANGED <<brInputs, brAttempt, brInvoked, brCounts, brRun>>
    /\ UNCHANGED attestVars
    /\ BurnFrame

\* const receipt = await tx.wait(); return {...}; res.json(result);
BR_MintConfirmed ==
    /\ brPc = "mintwait"
    /\ brMintsConfirmed' = brMintsConfirmed + 1
    /\ BurnRespond(HandlerStatus("returned"), Undefined,
                   BurnResult(brChain, brTx, brWalletAddress, brAmount, brAttestation,
                              MintResult(brMintTx)))
    /\ UNCHANGED <<brInputs, brAttempt, brLastErr, brInvoked, brSlept, brBurnTxs,
                   brBurnsConfirmed, brMintTxs, brRun>>
    /\ UNCHANGED attestVars
    /\ BurnFrame

BR_MintWaitFails ==
    /\ brPc = "mintwait"
    /\ BurnCaught(ErrNetwork)
    /\ UNCHANGED <<brInputs, brAttempt, brInvoked, brCounts, brRun>>
    /\ UNCHANGED attestVars
    /\ BurnFrame

NextBurn ==
    \/ BR_Request
    \/ BR_BadRequest
    \/ BR_Validated
    \/ BR_Invoke
    \/ BR_Unsupported
    \/ BR_ConfigFound
    \/ BR_BurnSubmitted
    \/ BR_BurnFails
    \/ BR_BurnConfirmed
    \/ BR_BurnWaitFails
    \/ BR_AttestationReturns
    \/ BR_AttestationThrows
    \/ BR_MintSubmitted
    \/ BR_MintFails
    \/ BR_MintConfirmed
    \/ BR_MintWaitFails
    \/ FA_Attempt
    \/ FA_Wait
    \/ FA_PollReady
    \/ FA_PollNotReady
    \/ FA_PollError
    \/ FA_Timeout

(***************************************************************************)
(* POST /api/create-wallet-all (server.js 914-956)                         *)
(***************************************************************************)

\* req.body.avalancheDestination
BatchDestinations == {Undefined} \cup Destinations

\* for (const chain of ["arbitrum", "base"])
BatchChains == <<"arbitrum", "base">>

ErrNoDestination == "avalancheDestination is required (address)"
ErrTransferWallet == "Failed to create Avalanche transfer wallet"

\* chain.toUpperCase()
ToUpperCase(chain) ==
    CASE chain = "arbitrum" -> "ARBITRUM"
      [] chain = "base" -> "BASE"
      [] chain = "avalanche" -> "AVALANCHE"
      [] OTHER -> chain

\* ethers.zeroPadValue(avalancheAddress, 32): the 20 bytes of the address
\* after 12 zero bytes.
ZeroPadValue(address, length) == [zeros |-> length - 20, address |-> address]

BurnRecipientUnpadded(address, destination) == ZeroPadValue(address, 20)

\* const avalancheBytes32 = ethers.zeroPadValue(avalancheAddress, 32);
\* createWalletOnChain(chain, avalancheBytes32)
BurnRecipient(address, destination) == ZeroPadValue(address, 32)

TransferFailureIgnored(outcome) == FALSE

\* catch (e) { ...; return res.status(500).json({ error: '...' }); }
TransferFailureFatal(outcome) == outcome = "thrown"

BurnFailureAborts(outcome) == outcome = "thrown"

\* catch (e) { console.error(...); // Continue with other chains even if one fails }
BurnFailureFatal(outcome) == FALSE

\* What the route remembers of a call it made.
BatchCall(rec) ==
    [fn |-> rec.fn, chain |-> rec.chain, arg |-> rec.arg, outcome |-> rec.outcome,
     value |-> rec.value]

NoBatchResponse == [status |-> 0, body |-> <<>>]

BatchInit ==
    /\ baPc = "idle"
    /\ baDestination = Undefined
    /\ baAvalancheAddress = Undefined
    /\ baIndex = 0
    /\ baLines = <<>>
    /\ baCalls = <<>>
    /\ baResponse = NoBatchResponse

BatchIdle == BatchInit

\* A request arrives.
BA_Request ==
    /\ baPc = "idle"
    /\ baDestination' \in BatchDestinations
    /\ baPc' = "validate"
    /\ UNCHANGED <<baAvalancheAddress, baIndex, baLines, baCalls, baResponse>>
    /\ BatchFrame

\* if (!avalancheDestination) return res.status(400).json(...)
BA_BadRequest ==
    /\ baPc = "validate"
    /\ ~Truthy(baDestination)
    /\ baPc' = "responded"
    /\ baResponse' = [status |-> 400, body |-> ErrNoDestination]
    /\ UNCHANGED <<baDestination, baAvalancheAddress, baIndex, baLines, baCalls>>
    /\ BatchFrame

\* avalancheAddress = await createAvalancheTransferWallet(avalancheDestination);
BA_StartTransfer ==
    /\ baPc = "validate"
    /\ Truthy(baDestination)
    /\ baPc' = "transfer"
    /\ wpFn' = "transferWallet"
    /\ wpChain' = "avalanche"
    /\ wpArg' = baDestination
    /\ wpPc' = "lookback"
    /\ UNCHANGED <<baDestination, baAvalancheAddress, baIndex, baLines, baCalls, baResponse>>
    /\ UNCHANGED <<wpAttempts, wpTx, wpStats, clCalls, clBudget, chainVars>>
    /\ UNCHANGED <<retryVars, attestVars, burnVars, transferVars, concVars, apartVars>>

\* lines.push(`AVALANCHE: ${avalancheAddress}`); then the loop over the chains.
BA_TransferReturned ==
    /\ baPc = "transfer"
    /\ wpFn = "none"
    /\ Len(clCalls) = 1
    /\ ~TransferFailureFatal(clCalls[1].outcome)
    /\ baAvalancheAddress' = clCalls[1].value
    /\ baLines' = Append(baLines, [label |-> ToUpperCase("avalanche"),
                                   address |-> clCalls[1].value])
    /\ baCalls' = Append(baCalls, BatchCall(clCalls[1]))
    /\ clCalls' = <<>>
    /\ baIndex' = 1
    /\ baPc' = "burns"
    /\ UNCHANGED <<baDestination, baResponse>>
    /\ UNCHANGED <<wpFn, wpChain, wpArg, wpPc, wpAttempts, wpTx, wpStats, clBudget, chainVars>>
    /\ UNCHANGED <<retryVars, attestVars, burnVars, transferVars, concVars, apartVars>>

\* createAvalancheTransferWallet raised: answer 500, nothing else is done.
BA_TransferFailed ==
    /\ baPc = "transfer"
    /\ wpFn = "none"
    /\ Len(clCalls) = 1
    /\ TransferFailureFatal(clCalls[1].outcome)
    /\ baCalls' = Append(baCalls, BatchCall(clCalls[1]))
    /\ clCalls' = <<>>
    /\ baPc' = "responded"
    /\ baResponse' = [status |-> 500, body |-> ErrTransferWallet]
    /\ UNCHANGED <<baDestination, baAvalancheAddress, baIndex, baLines>>
    /\ UNCHANGED <<wpFn, wpChain, wpArg, wpPc, wpAttempts, wpTx, wpStats, clBudget, chainVars>>
    /\ UNCHANGED <<retryVars, attestVars, burnVars, transferVars, concVars, apartVars>>

\* const addr = await createWalletOnChain(chain, avalancheBytes32);
BA_StartBurn ==
    /\ baPc = "burns"
    /\ baIndex <= Len(BatchChains)
    /\ baPc' = "burn"
    /\ wpFn' = "burnWallet"
    /\ wpChain' = BatchChains[baIndex]
    /\ wpArg' = BurnRecipient(baAvalancheAddress, baDestination)
    /\ wpPc' = "config"
    /\ UNCHANGED <<baDestination, baAvalancheAddress, baIndex, baLines, baCalls, baResponse>>
    /\ UNCHANGED <<wpAttempts, wpTx, wpStats, clCalls, clBudget, chainVars>>
    /\ UNCHANGED <<retryVars, attestVars, burnVars, transferVars, concVars, apartVars>>

\* lines.push(`${chain.toUpperCase()}: ${addr}`);
BA_BurnReturned ==
    /\ baPc = "burn"
    /\ wpFn = "none"
    /\ Len(clCalls) = 1
    /\ clCalls[1].outcome = "returned"
    /\ baLines' = Append(baLines, [label |-> ToUpperCase(BatchChains[baIndex]),
                                   address |-> clCalls[1].value])
    /\ baCalls' = Append(baCalls, BatchCall(clCalls[1]))
    /\ clCalls' = <<>>
    /\ baIndex' = baIndex + 1
    /\ baPc' = "burns"
    /\ UNCHANGED <<baDestination, baAvalancheAddress, baResponse>>
    /\ UNCHANGED <<wpFn, wpChain, wpArg, wpPc, wpAttempts, wpTx, wpStats, clBudget, chainVars>>
    /\ UNCHANGED <<retryVars, attestVars, burnVars, transferVars, concVars, apartVars>>

\* createWalletOnChain raised: the inner catch logs it and the loop goes on.
BA_BurnFailed ==
    /\ baPc = "burn"
    /\ wpFn = "none"
    /\ Len(clCalls) = 1
    /\ clCalls[1].outcome = "thrown"
    /\ baCalls' = Append(baCalls, BatchCall(clCalls[1]))
    /\ clCalls' = <<>>
    /\ IF BurnFailureFatal(clCalls[1].outcome)
       THEN /\ baPc' = "responded"
            /\ baResponse' = [status |-> 500, body |-> clCalls[1].error]
            /\ UNCHANGED baIndex
       ELSE /\ baPc' = "burns"
            /\ baIndex' = baIndex + 1
            /\ UNCHANGED baResponse
    /\ UNCHANGED <<baDestination, baAvalancheAddress, baLines>>
    /\ UNCHANGED <<wpFn, wpChain, wpArg, wpPc, wpAttempts, wpTx, wpStats, clBudget, chainVars>>
    /\ UNCHANGED <<retryVars, attestVars, burnVars, transferVars, concVars, apartVars>>

\* res.set('Content-Type', 'text/plain'); res.send(lines.join('\n'));
BA_Respond ==
    /\ baPc = "burns"
    /\ baIndex > Len(BatchChains)
    /\ baPc' = "responded"
    /\ baResponse' = [status |-> 200, body |-> baLines]
    /\ UNCHANGED <<baDestination, baAvalancheAddress, baIndex, baLines, baCalls>>
    /\ BatchFrame

NextBatch ==
    \/ BA_Request
    \/ BA_BadRequest
    \/ BA_StartTransfer
    \/ BA_TransferReturned
    \/ BA_TransferFailed
    \/ BA_StartBurn
    \/ BA_BurnReturned
    \/ BA_BurnFailed
    \/ BA_Respond
    \/ WP_ConfigFound
    \/ WP_LookbackFound
    \/ WP_LookbackEmpty
    \/ WP_LookbackFails
    \/ WP_Attempt
    \/ WP_Construct
    \/ WP_OwnerOk
    \/ WP_OwnerMismatch
    \/ WP_OwnerFails
    \/ WP_SubmitAccepted
    \/ WP_SubmitFails
    \/ WP_SubmitLost
    \/ WP_SubmitAlreadyKnown
    \/ WP_WaitReceipt
    \/ WP_WaitNoEvent
    \/ WP_WaitFails
    \/ WP_RecoverFound
    \/ WP_RecoverEmpty
    \/ WP_RecoverFails
    \/ (MineTx /\ UNCHANGED walletVars /\ WalletFrame)
    \/ (BlocksPass /\ UNCHANGED walletVars /\ WalletFrame)

(***************************************************************************)
(* createSingleWallet called by other accounts (part_001 48-50, 290-295)   *)
(***************************************************************************)

\* Creation transactions that accounts other than the operator send.
MaxOutsiderTxs == 1

\* Transactions sent by somebody else (call 0).
OutsiderTxs ==
    Cardinality({i \in 1..Len(chEvents) : chEvents[i].call = 0})
    + Cardinality({i \in 1..Len(chPending) : chPending[i].call = 0})

\* function createSingleWallet(...) external returns (address): an account
\* that is not the operator sends the call to one of the factories.
AnyoneCreates ==
    /\ OutsiderTxs < MaxOutsiderTxs
    /\ \E f \in Factories :
       \E key \in (IF f = TransferFactory THEN Destinations ELSE Recipients) :
          chPending' = Append(chPending, CreationTx(NextTxId, f, key, 0))
    /\ UNCHANGED <<chEvents, chAged, chOwner>>
    /\ UNCHANGED walletVars
    /\ WalletFrame

NextFactory ==
    \/ NextWallet
    \/ AnyoneCreates

(***************************************************************************)
(* Amounts at the boundary: POST /api/test-burn and POST /api/transfer-usdc*)
(* (server.js 722-729, 785-811)                                            *)
(***************************************************************************)

\* A request amount is a string, kept as the sequence of its characters.
\* The characters amounts are written with, and their longest length.
AmountAlphabet == {"0", "1", "2", "."}
MaxAmountLen == 5

\* The largest whole number of USDC an amount starts with.
MaxWholeUnits == 2000

DecimalDigits == {"0", "1", "2", "3", "4", "5", "6", "7", "8", "9"}

DigitValue(c) ==
    CASE c = "0" -> 0 [] c = "1" -> 1 [] c = "2" -> 2 [] c = "3" -> 3 [] c = "4" -> 4
      [] c = "5" -> 5 [] c = "6" -> 6 [] c = "7" -> 7 [] c = "8" -> 8 [] c = "9" -> 9

RECURSIVE Pow(_, _)
Pow(b, n) == IF n = 0 THEN 1 ELSE b * Pow(b, n - 1)

\* The number a sequence of decimal digits denotes.
RECURSIVE DigitsValue(_)
DigitsValue(ds) ==
    IF ds = <<>> THEN 0
    ELSE 10 * DigitsValue(SubSeq(ds, 1, Len(ds) - 1)) + DigitValue(ds[Len(ds)])

\* The number of decimal digits s starts with, from position i on.
RECURSIVE DigitRun(_, _)
DigitRun(s, i) ==
    IF i <= Len(s) /\ s[i] \in DecimalDigits THEN 1 + DigitRun(s, i + 1) ELSE 0

\* req.body.amount: a missing amount and "" are both the empty sequence.
AmountStrings ==
    {s \in SeqsUpTo(AmountAlphabet, MaxAmountLen) :
        DigitsValue(SubSeq(s, 1, DigitRun(s, 1))) <= MaxWholeUnits}

\* ---- IEEE 754 binary64, as far as positive decimals need it ----
\* A double is [sig, exp]: sig the 53 bits of the significand, most
\* significant first, and the value sig * 2^exp; zero has the empty sig.
MantissaBits == 53

DoubleZero == [sig |-> <<>>, exp |-> 0]

\* The bits of a natural number, most significant first.
RECURSIVE BitsOf(_)
BitsOf(n) == IF n = 0 THEN <<>> ELSE Append(BitsOf(n \div 2), n % 2)

RECURSIVE BitsValue(_)
BitsValue(bits) ==
    IF bits = <<>> THEN 0
    ELSE 2 * BitsValue(SubSeq(bits, 1, Len(bits) - 1)) + bits[Len(bits)]

\* The next n bits of the binary expansion of r / d (0 <= r < d), and the
\* remainder they leave.
RECURSIVE FractionBits(_, _, _)
FractionBits(r, d, n) ==
    IF n = 0 THEN <<>>
    ELSE <<(2 * r) \div d>> \o FractionBits((2 * r) % d, d, n - 1)

RECURSIVE FractionRem(_, _, _)
FractionRem(r, d, n) == IF n = 0 THEN r ELSE FractionRem((2 * r) % d, d, n - 1)

\* The zero bits the expansion of r / d starts with (0 < r < d).
RECURSIVE LeadingZeros(_, _)
LeadingZeros(r, d) == IF 2 * r >= d THEN 0 ELSE 1 + LeadingZeros(2 * r, d)

\* bits + 1, one bit longer when every bit was 1.
RECURSIVE Increment(_)
Increment(bits) ==
    IF bits = <<>> THEN <<1>>
    ELSE IF bits[Len(bits)] = 0 THEN [bits EXCEPT ![Len(bits)] = 1]
    ELSE Append(Increment(SubSeq(bits, 1, Len(bits) - 1)), 0)

\* Round-to-nearest, ties-to-even: bits are the leading bits of a positive
\* value whose last given bit has weight 2^exp; sticky tells whether
\* anything nonzero follows them.
RoundToDouble(bits, exp, sticky) ==
    IF Len(bits) <= MantissaBits
    THEN [sig |-> bits \o [i \in 1..(MantissaBits - Len(bits)) |-> 0],
          exp |-> exp - (MantissaBits - Len(bits))]
    ELSE LET kept == SubSeq(bits, 1, MantissaBits)
             guard == bits[MantissaBits + 1]
             rest == \E i \in (MantissaBits + 2)..Len(bits) : bits[i] = 1
             up == guard = 1 /\ (rest \/ sticky \/ kept[MantissaBits] = 1)
             raised == IF up THEN Increment(kept) ELSE kept
             e == exp + (Len(bits) - MantissaBits)
         IN  IF Len(raised) > MantissaBits
             THEN [sig |-> SubSeq(raised, 1, MantissaBits), exp |-> e + 1]
             ELSE [sig |-> raised, exp |-> e]

\* The double nearest to n / d (n >= 0, d > 0).
NearestDouble(n, d) ==
    IF n = 0 THEN DoubleZero
    ELSE LET int == BitsOf(n \div d)
             r == n % d
         IN  IF int # <<>>
             THEN LET k == MantissaBits + 1 - Len(int)
                  IN  RoundToDouble(int \o FractionBits(r, d, k), -k, FractionRem(r, d, k) # 0)
             ELSE LET z == LeadingZeros(r, d)
                      r0 == FractionRem(r, d, z)
                      k == MantissaBits + 1
                  IN  RoundToDouble(FractionBits(r0, d, k), -(z + k), FractionRem(r0, d, k) # 0)

\* bits * m for a small m, least significant bit first, with the carry.
RECURSIVE TimesSmall(_, _, _)
TimesSmall(lsbFirst, m, carry) ==
    IF lsbFirst = <<>> THEN (IF carry = 0 THEN <<>> ELSE <<carry % 2>> \o TimesSmall(<<>>, m, carry \div 2))
    ELSE LET t == lsbFirst[1] * m + carry
         IN  <<t % 2>> \o TimesSmall(Tail(lsbFirst), m, t \div 2)

Reverse(s) == [i \in 1..Len(s) |-> s[Len(s) + 1 - i]]

\* x * 1000000 in binary64: the exact product, rounded.  1000000 is
\* 15625 * 2^6.
TimesMillion(x) ==
    IF x.sig = <<>> THEN DoubleZero
    ELSE RoundToDouble(Reverse(TimesSmall(Reverse(x.sig), 15625, 0)), x.exp + 6, FALSE)

\* Math.floor of a double that is not negative, as an integer.
Floor(x) ==
    IF x.sig = <<>> THEN 0
    ELSE IF x.exp >= 0 THEN BitsValue(x.sig) * Pow(2, x.exp)
    ELSE IF -x.exp >= Len(x.sig) THEN 0
    ELSE BitsValue(SubSeq(x.sig, 1, Len(x.sig) + x.exp))

\* parseFloat(amount): the longest prefix that is a decimal literal
\* (digits, then optionally a point and digits); NaN when the prefix has no
\* digit.  The literal is n / 10^k.
NaN == [nan |-> TRUE, n |-> 0, k |-> 0]

ParseFloat(s) ==
    LET intLen == DigitRun(s, 1)
        hasPoint == intLen < Len(s) /\ s[intLen + 1] = "."
        fracLen == IF hasPoint THEN DigitRun(s, intLen + 2) ELSE 0
    IN  IF intLen + fracLen = 0 THEN NaN
        ELSE [nan |-> FALSE,
              n |-> DigitsValue(SubSeq(s, 1, intLen) \o SubSeq(s, intLen + 2, intLen + 1 + fracLen)),
              k |-> fracLen]

\* BigInt(amount) of a string of these characters without a point.
StringToBigInt(s) == DigitsValue(s)

\* What a conversion produces: an integer, a rejection answered with 400,
\* or an exception.
Converted(value) == [kind |-> "ok", value |-> value, error |-> Undefined]
ConversionRejected(error) == [kind |-> "rejected", value |-> 0, error |-> error]
ConversionThrows(error) == [kind |-> "thrown", value |-> 0, error |-> error]

ErrAmountFormat == "Invalid amount format. Use decimal (e.g., 0.001) or wei (e.g., 1000)"
ErrAmountNotPositive == "Amount must be greater than 0"
ErrBigIntNaN == "The number NaN cannot be converted to a BigInt because it is not an integer"

\* BigInt(Math.floor(decimalAmount * 1000000))
DecimalToBaseUnits(p) == Floor(TimesMillion(NearestDouble(p.n, Pow(10, p.k))))

\* POST /api/test-burn:
\*   if (amount.includes('.')) { const decimalAmount = parseFloat(amount);
\*     amountBigInt = BigInt(Math.floor(decimalAmount * 1000000)); }
\*   else { amountBigInt = BigInt(amount); }
ConvertTestBurn(amount) ==
    IF Includes(amount, ".")
    THEN LET decimalAmount == ParseFloat(amount)
         IN  IF decimalAmount.nan THEN ConversionThrows(ErrBigIntNaN)
             ELSE Converted(DecimalToBaseUnits(decimalAmount))
    ELSE Converted(StringToBigInt(amount))

\* POST /api/transfer-usdc: the same inside try { } catch { 400 }, with
\*   if (isNaN(decimalAmount) || decimalAmount <= 0) return 400
\*   if (amountBigInt <= 0) return 400
ConvertTransfer(amount) ==
    IF Includes(amount, ".")
    THEN LET decimalAmount == ParseFloat(amount)
         IN  IF decimalAmount.nan \/ decimalAmount.n <= 0
             THEN ConversionRejected(ErrAmountFormat)
             ELSE Converted(DecimalToBaseUnits(decimalAmount))
    ELSE LET amountBigInt == StringToBigInt(amount)
         IN  IF amountBigInt <= 0 THEN ConversionRejected(ErrAmountNotPositive)
             ELSE Converted(amountBigInt)

ConvertAmount(route, amount) ==
    IF route = "test-burn" THEN ConvertTestBurn(amount) ELSE ConvertTransfer(amount)

(***************************************************************************)
(* POST /api/test-burn and POST /api/transfer-usdc (server.js 710-879)     *)
(* with the SDK's transfer sequence (dist/index.js, from spec 4.5)         *)
(***************************************************************************)

TransferRoutes == {"test-burn", "transfer-usdc"}
TransferWalletAddresses == {Undefined, "0xw1"}
TransferChains == {Undefined, "base", "Base", "arbitrum", "avalanche"}

\* const validChains = ['base', 'arbitrum'];
ValidChains == {"base", "arbitrum"}

\* chain.toLowerCase()
ToLowerCase(chain) == IF chain = "Base" THEN "base" ELSE chain

\* runWithRetries(handler, { maxAttempts: 3, baseDelayMs: 2000 })
TransferMaxAttempts == 3
TransferBaseDelayMs == 2000

ErrTransferFields == "walletAddress, chain, and amount are required"
ErrInvalidChain == "Invalid chain. Supported chains: base, arbitrum"
ErrSdkBurn == "burn failed"
ErrSdkAttestation == "attestation failed"
ErrSdkMint == "mint failed"
ErrObserver == "onStep failed"

\* onStep of an SDK call.  The transfer route passes a function that logs
\* (console.log and a switch over the step); the SDK is also called with
\* no observer, as test-burn does, and with one that raises.
ObserversOf(route) ==
    IF route = "transfer-usdc" THEN {"absent", "logs", "throws"} ELSE {"absent"}

\* The stages the SDK reports, in the order of spec 4.5.
TransferSteps == <<"burn", "attestation", "mint", "complete">>

ObserverFailureAborts(observer) == observer = "throws"

\* The SDK calls onStep for information only: what the observer does,
\* raising included, does not reach the sequence.
ObserverFailureFatal(observer) == FALSE

\* The steps the observer has been told after one more.
Notify(steps, step, observer) ==
    IF observer = "absent" THEN steps ELSE Append(steps, step)

NoTransferRun == [steps |-> <<>>, burnTxHash |-> NoHash, mintTxHash |-> NoHash]

NoTransferBody ==
    [success |-> FALSE, sourceChain |-> Undefined, walletAddress |-> Undefined,
     amount |-> <<>>, burnTxHash |-> NoHash, mintTxHash |-> NoHash]

NoTransferResponse == [status |-> 0, error |-> Undefined, body |-> NoTransferBody]

\* return { success: true, sourceChain: chain, destinationChain: 'avalanche',
\*          walletAddress, amount, burnTxHash: result.burnTxHash,
\*          mintTxHash: result.mintTxHash, ... };
TransferResult(chain, walletAddress, amount, run) ==
    [success |-> TRUE, sourceChain |-> chain, walletAddress |-> walletAddress,
     amount |-> amount, burnTxHash |-> run.burnTxHash, mintTxHash |-> run.mintTxHash]

\* res.json({ success: true, burnTxHash: result.transactionHash, gasUsed })
TestBurnResult(run) ==
    [NoTransferBody EXCEPT !.success = TRUE, !.burnTxHash = run.burnTxHash]

TransferInit ==
    /\ trPc = "validate"
    /\ trRoute \in TransferRoutes
    /\ trWalletAddress \in TransferWalletAddresses
    /\ trChain \in TransferChains
    /\ trObserver \in ObserversOf(trRoute)
    /\ trAmountBigInt = 0
    /\ trAttempt = 0
    /\ trSlept = <<>>
    /\ trRun = NoTransferRun
    /\ trSdkCalls = <<>>
    /\ trOutcomes = <<>>
    /\ trCounts = [burns |-> 0, mints |-> 0]
    /\ trResponse = NoTransferResponse

TransferIdle ==
    /\ trPc = "idle"
    /\ trRoute = "none"
    /\ trWalletAddress = Undefined
    /\ trChain = Undefined
    /\ trAmount = <<>>
    /\ trObserver = "absent"
    /\ trAmountBigInt = 0
    /\ trAttempt = 0
    /\ trSlept = <<>>
    /\ trRun = NoTransferRun
    /\ trSdkCalls = <<>>
    /\ trOutcomes = <<>>
    /\ trCounts = [burns |-> 0, mints |-> 0]
    /\ trResponse = NoTransferResponse

trInputs == <<trRoute, trWalletAddress, trChain, trAmount, trObserver>>

trRetry == <<trAttempt, trSlept>>

trSdk == <<trRun, trSdkCalls, trOutcomes, trCounts>>

TransferRespond(status, error, body) ==
    /\ trPc' = "responded"
    /\ trResponse' = [status |-> status, error |-> error, body |-> body]

\* if (!walletAddress || !chain || !amount) return res.status(400).json(...)
TR_MissingField ==
    /\ trPc = "validate"
    /\ ~Truthy(trWalletAddress) \/ ~Truthy(trChain) \/ trAmount = <<>>
    /\ TransferRespond(400, ErrTransferFields, NoTransferBody)
    /\ UNCHANGED <<trInputs, trAmountBigInt, trRetry, trSdk>>
    /\ TransferFrame

TR_Validated ==
    /\ trPc = "validate"
    /\ Truthy(trWalletAddress) /\ Truthy(trChain) /\ trAmount # <<>>
    /\ trPc' = IF trRoute = "transfer-usdc" THEN "chain" ELSE "convert"
    /\ UNCHANGED <<trInputs, trAmountBigInt, trRetry, trSdk, trResponse>>
    /\ TransferFrame

\* if (!validChains.includes(chain.toLowerCase())) return res.status(400)
TR_InvalidChain ==
    /\ trPc = "chain"
    /\ ToLowerCase(trChain) \notin ValidChains
    /\ TransferRespond(400, ErrInvalidChain, NoTransferBody)
    /\ UNCHANGED <<trInputs, trAmountBigInt, trRetry, trSdk>>
    /\ TransferFrame

TR_ChainValid ==
    /\ trPc = "chain"
    /\ ToLowerCase(trChain) \in ValidChains
    /\ trPc' = "convert"
    /\ UNCHANGED <<trInputs, trAmountBigInt, trRetry, trSdk, trResponse>>
    /\ TransferFrame

\* The amount is converted: amountBigInt is assigned.
TR_Converted ==
    /\ trPc = "convert"
    /\ LET c == ConvertAmount(trRoute, trAmount)
       IN  /\ c.kind = "ok"
           /\ trAmountBigInt' = c.value
    /\ trPc' = "loop"
    /\ UNCHANGED <<trInputs, trRetry, trSdk, trResponse>>
    /\ TransferFrame

\* transfer-usdc answers 400 to an amount it rejects or cannot parse;
\* test-burn lets the exception reach its catch block: 500.
TR_ConversionFails ==
    /\ trPc = "convert"
    /\ LET c == ConvertAmount(trRoute, trAmount)
       IN  /\ c.kind # "ok"
           /\ TransferRespond(IF trRoute = "transfer-usdc" THEN 400 ELSE 500,
                              c.error, NoTransferBody)
    /\ UNCHANGED <<trInputs, trAmountBigInt, trRetry, trSdk>>
    /\ TransferFrame

TransferBudgetFive(route) == IF route = "transfer-usdc" THEN 5 ELSE 1

\* The budget of invocations: runWithRetries for transfer-usdc, one call
\* for test-burn.
TransferBudget(route) == IF route = "transfer-usdc" THEN TransferMaxAttempts ELSE 1

\* sdk.transferUSDCWithSmartWallet({ amount: amountBigInt, sourceChain:
\* chain.toLowerCase(), onStep, ... }) / sdk.burnUSDCWithSmartWallet({ ... })
TR_Invoke ==
    /\ trPc = "loop"
    /\ RetryLoopCond(trAttempt, TransferBudget(trRoute))
    /\ trAttempt' = trAttempt + 1
    /\ trRun' = NoTransferRun
    /\ trSdkCalls' = Append(trSdkCalls,
            [fn |-> IF trRoute = "transfer-usdc" THEN "transferUSDCWithSmartWallet"
                    ELSE "burnUSDCWithSmartWallet",
             amount |-> trAmountBigInt, sourceChain |-> ToLowerCase(trChain)])
    /\ trPc' = "burn"
    /\ UNCHANGED <<trInputs, trAmountBigInt, trSlept, trOutcomes, trCounts, trResponse>>
    /\ TransferFrame

\* } catch (err) { lastErr = err; if (attempt >= maxAttempts) break;
\*   await sleep(baseDelayMs * attempt) } ... throw lastErr  ->  500
TransferCaught(err) ==
    IF RetryExhausted(trAttempt, TransferBudget(trRoute))
    THEN /\ TransferRespond(500, err, NoTransferBody)
         /\ UNCHANGED trSlept
    ELSE /\ trSlept' = Append(trSlept, RetryDelay(TransferBaseDelayMs, trAttempt))
         /\ trPc' = "loop"
         /\ UNCHANGED trResponse

\* A stage of the SDK's sequence begins by telling the observer; the stage
\* then runs to its outcome, unless what the observer did stops the run.
SdkStage(step, outcome) ==
    IF ObserverFailureFatal(trObserver)
    THEN /\ trRun' = [trRun EXCEPT !.steps = Notify(@, step, trObserver)]
         /\ TransferCaught(ErrObserver)
         /\ UNCHANGED <<trInputs, trAmountBigInt, trAttempt, trSdkCalls, trOutcomes, trCounts>>
         /\ TransferFrame
    ELSE outcome

\* Stage 1: burn on the source chain, one confirmation.
TR_BurnConfirmed ==
    /\ trPc = "burn"
    /\ SdkStage("burn",
            /\ trRun' = [trRun EXCEPT !.steps = Notify(@, "burn", trObserver),
                                      !.burnTxHash = BurnHash(trCounts.burns + 1)]
            /\ trCounts' = [trCounts EXCEPT !.burns = @ + 1]
            /\ IF trRoute = "transfer-usdc"
               THEN /\ trPc' = "attestation"
                    /\ UNCHANGED <<trOutcomes, trResponse>>
               ELSE /\ TransferRespond(200, Undefined, TestBurnResult(trRun'))
                    /\ trOutcomes' = Append(trOutcomes, "none")
            /\ UNCHANGED <<trInputs, trAmountBigInt, trRetry, trSdkCalls>>
            /\ TransferFrame)

TR_BurnFails ==
    /\ trPc = "burn"
    /\ SdkStage("burn",
            /\ trRun' = [trRun EXCEPT !.steps = Notify(@, "burn", trObserver)]
            /\ trOutcomes' = Append(trOutcomes, "burn")
            /\ TransferCaught(ErrSdkBurn)
            /\ UNCHANGED <<trInputs, trAmountBigInt, trAttempt, trSdkCalls, trCounts>>
            /\ TransferFrame)

\* Stage 2: the attestation of the burn.
TR_AttestationReady ==
    /\ trPc = "attestation"
    /\ SdkStage("attestation",
            /\ trRun' = [trRun EXCEPT !.steps = Notify(@, "attestation", trObserver)]
            /\ trPc' = "mint"
            /\ UNCHANGED <<trInputs, trAmountBigInt, trRetry, trSdkCalls, trOutcomes, trCounts,
                           trResponse>>
            /\ TransferFrame)

TR_AttestationFails ==
    /\ trPc = "attestation"
    /\ SdkStage("attestation",
            /\ trRun' = [trRun EXCEPT !.steps = Notify(@, "attestation", trObserver)]
            /\ trOutcomes' = Append(trOutcomes, "attestation")
            /\ TransferCaught(ErrSdkAttestation)
            /\ UNCHANGED <<trInputs, trAmountBigInt, trAttempt, trSdkCalls, trCounts>>
            /\ TransferFrame)

\* Stage 3: mint on the destination chain, one confirmation.
TR_MintConfirmed ==
    /\ trPc = "mint"
    /\ SdkStage("mint",
            /\ trRun' = [trRun EXCEPT !.steps = Notify(@, "mint", trObserver),
                                      !.mintTxHash = MintHash(trCounts.mints + 1)]
            /\ trCounts' = [trCounts EXCEPT !.mints = @ + 1]
            /\ trPc' = "complete"
            /\ UNCHANGED <<trInputs, trAmountBigInt, trRetry, trSdkCalls, trOutcomes, trResponse>>
            /\ TransferFrame)

TR_MintFails ==
    /\ trPc = "mint"
    /\ SdkStage("mint",
            /\ trRun' = [trRun EXCEPT !.steps = Notify(@, "mint", trObserver)]
            /\ trOutcomes' = Append(trOutcomes, "mint")
            /\ TransferCaught(ErrSdkMint)
            /\ UNCHANGED <<trInputs, trAmountBigInt, trAttempt, trSdkCalls, trCounts>>
            /\ TransferFrame)

\* Stage 4: the result is assembled and returned; the route answers with
\* res.json(result).
TR_Complete ==
    /\ trPc = "complete"
    /\ SdkStage("complete",
            /\ trRun' = [trRun EXCEPT !.steps = Notify(@, "complete", trObserver)]
            /\ trOutcomes' = Append(trOutcomes, "none")
            /\ TransferRespond(200, Undefined,
                               TransferResult(trChain, trWalletAddress, trAmount, trRun'))
            /\ UNCHANGED <<trInputs, trAmountBigInt, trRetry, trSdkCalls, trCounts>>
            /\ TransferFrame)

NextConvert ==
    \/ TR_MissingField
    \/ TR_Validated
    \/ TR_InvalidChain
    \/ TR_ChainValid
    \/ TR_Converted
    \/ TR_ConversionFails

NextTransfer ==
    \/ NextConvert
    \/ TR_Invoke
    \/ TR_BurnConfirmed
    \/ TR_BurnFails
    \/ TR_AttestationReady
    \/ TR_AttestationFails
    \/ TR_MintConfirmed
    \/ TR_MintFails
    \/ TR_Complete

(***************************************************************************)
(* Requests in flight together (server.js 229-279, 282-375, 442-485,       *)
(* 690-708): each call of an async function has its own locals             *)
(***************************************************************************)

\* The requests the server is handling at once.
Procs == {1, 2}

FrameShared(p) == 1

\* let attempts = 0; / let attempt = 0; are declared inside the function
\* bodies: every call has its own activation record.
Frame(p) == p

NoFrame == [attempts |-> 0, polls |-> 0]

\* What a request has been answered so far by the services it called:
\* attempts it began, polls it sent in the current invocation, the last
\* answer.
NoOwn == [attempts |-> 0, polls |-> 0, last |-> "none"]

\* A request: what it is, where it stands, how it ended; for a call of
\* createAvalancheTransferWallet also its transaction, what its lookback
\* found (saw) and how many events the log held then (logLen).

NewProc(kind, target, pc) ==
    [kind |-> kind, pc |-> pc, target |-> target, outcome |-> "none", value |-> 0,
     tx |-> 0, lookback |-> "none", saw |-> 0, logLen |-> 0, own |-> NoOwn]

ConcIdle ==
    /\ ccProc = [p \in Procs |-> NewProc("none", "none", "idle")]
    /\ ccFrames = [f \in Procs |-> NoFrame]

\* The outer budget of a request: createWalletOnChain's maxAttempts,
\* createAvalancheTransferWallet's, or the burn route's runWithRetries.
ConcBudget(kind) ==
    CASE kind = "wallet" -> WalletMaxAttempts("burnWallet")
      [] kind = "transfer" -> WalletMaxAttempts("transferWallet")
      [] OTHER -> BurnMaxAttempts

ccAttemptsOf(p) == ccFrames[Frame(p)].attempts

ccPollsOf(p) == ccFrames[Frame(p)].polls

\* The request ends.
ConcFinish(p, outcome, value, last) ==
    ccProc' = [ccProc EXCEPT ![p].pc = "done", ![p].outcome = outcome,
                             ![p].value = value, ![p].own.last = last]

\* catch: raise when the budget is used up, else back to the loop head.
ConcCaught(p, last) ==
    IF RetryExhausted(ccAttemptsOf(p), ConcBudget(ccProc[p].kind))
    THEN ConcFinish(p, "thrown", 0, last)
    ELSE ccProc' = [ccProc EXCEPT ![p].pc = "loop", ![p].own.last = last]

\* while (attempts < maxAttempts) { try { attempts++;
CC_Attempt(p) ==
    /\ ccProc[p].pc = "loop"
    /\ RetryLoopCond(ccAttemptsOf(p), ConcBudget(ccProc[p].kind))
    /\ ccFrames' = [ccFrames EXCEPT ![Frame(p)].attempts = @ + 1]
    /\ ccProc' = [ccProc EXCEPT
            ![p].pc = CASE ccProc[p].kind = "wallet" -> "create"
                        [] ccProc[p].kind = "transfer" -> "submit"
                        [] OTHER -> "burn",
            ![p].own.attempts = @ + 1]
    /\ UNCHANGED chainVars
    /\ ConcFrame

\* createWalletOnChain: the attempt (owner, createSingleWallet, wait,
\* decode) against the request's own factory goes through.
CC_WalletCreated(p) ==
    /\ ccProc[p].pc = "create"
    /\ ConcFinish(p, "returned", p, "ok")
    /\ UNCHANGED <<ccFrames, chainVars>>
    /\ ConcFrame

\* ... or fails at one of its steps.
CC_WalletFails(p) ==
    /\ ccProc[p].pc = "create"
    /\ ConcCaught(p, "error")
    /\ UNCHANGED <<ccFrames, chainVars>>
    /\ ConcFrame

\* burnUSDCOnChain: burnUSDC is confirmed; fetchAttestation starts with
\* let attempts = 0.
CC_BurnConfirmed(p) ==
    /\ ccProc[p].pc = "burn"
    /\ ccFrames' = [ccFrames EXCEPT ![Frame(p)].polls = 0]
    /\ ccProc' = [ccProc EXCEPT ![p].pc = "poll", ![p].own.polls = 0, ![p].own.last = "ok"]
    /\ UNCHANGED chainVars
    /\ ConcFrame

CC_BurnFails(p) ==
    /\ ccProc[p].pc = "burn"
    /\ ConcCaught(p, "error")
    /\ UNCHANGED <<ccFrames, chainVars>>
    /\ ConcFrame

\* fetchAttestation: attempts++, wait, one poll and its answer.
CC_Poll(p) ==
    /\ ccProc[p].pc = "poll"
    /\ PollLoopCond(ccPollsOf(p))
    /\ ccFrames' = [ccFrames EXCEPT ![Frame(p)].polls = @ + 1]
    /\ \E answer \in {"ready", "pending", "error"} :
          IF answer = "error" /\ PollErrorRethrown(ccPollsOf(p) + 1)
          THEN IF RetryExhausted(ccAttemptsOf(p), ConcBudget(ccProc[p].kind))
               THEN ccProc' = [ccProc EXCEPT ![p].pc = "done", ![p].outcome = "thrown",
                                             ![p].own.polls = @ + 1, ![p].own.last = answer]
               ELSE ccProc' = [ccProc EXCEPT ![p].pc = "loop",
                                             ![p].own.polls = @ + 1, ![p].own.last = answer]
          ELSE ccProc' = [ccProc EXCEPT
                    ![p].pc = IF answer = "ready" THEN "mint" ELSE "poll",
                    ![p].own.polls = @ + 1, ![p].own.last = answer]
    /\ UNCHANGED chainVars
    /\ ConcFrame

\* throw new Error('Failed to fetch attestation after maximum attempts')
CC_PollTimeout(p) ==
    /\ ccProc[p].pc = "poll"
    /\ ~PollLoopCond(ccPollsOf(p))
    /\ ConcCaught(p, ccProc[p].own.last)
    /\ UNCHANGED <<ccFrames, chainVars>>
    /\ ConcFrame

\* mintOnArbitrum: receiveMessage is confirmed; the route answers.
CC_MintConfirmed(p) ==
    /\ ccProc[p].pc = "mint"
    /\ ConcFinish(p, "returned", p, "ok")
    /\ UNCHANGED <<ccFrames, chainVars>>
    /\ ConcFrame

CC_MintFails(p) ==
    /\ ccProc[p].pc = "mint"
    /\ ConcCaught(p, "error")
    /\ UNCHANGED <<ccFrames, chainVars>>
    /\ ConcFrame

\* ---- createAvalancheTransferWallet, two calls at once ----

\* const events = await factory.queryFilter(filter, -50);
\* if (events.length > 0) return events[events.length - 1].args.wallet;
CT_Lookback(p) ==
    /\ ccProc[p].pc = "lookback"
    /\ LET events == QueryFilter(ccProc[p].target, LookbackExisting)
       IN  IF LookbackFinds(events)
           THEN ccProc' = [ccProc EXCEPT ![p].pc = "done", ![p].outcome = "returned",
                                         ![p].value = events[Len(events)].wallet,
                                         ![p].lookback = "found", ![p].saw = Len(events),
                                         ![p].logLen = Len(chEvents)]
           ELSE ccProc' = [ccProc EXCEPT ![p].pc = "loop", ![p].lookback = "empty",
                                         ![p].saw = Len(events),
                                         ![p].logLen = Len(chEvents)]
    /\ UNCHANGED <<ccFrames, chainVars>>
    /\ ConcFrame

\* catch (e) { console.log(`Could not check existing wallets, ...`) }
CT_LookbackFails(p) ==
    /\ ccProc[p].pc = "lookback"
    /\ ccProc' = [ccProc EXCEPT ![p].pc = "loop", ![p].lookback = "failed"]
    /\ UNCHANGED <<ccFrames, chainVars>>
    /\ ConcFrame

\* owner() answers the signer; const tx = await factory.createSingleWallet(
\* destinationAddress): a node takes the transaction.
CT_Submit(p) ==
    /\ ccProc[p].pc = "submit"
    /\ SentByCalls < MaxTxs
    /\ chPending' = Append(chPending, CreationTx(NextTxId, TransferFactory, ccProc[p].target, p))
    /\ ccProc' = [ccProc EXCEPT ![p].pc = "wait", ![p].tx = NextTxId, ![p].own.last = "ok"]
    /\ UNCHANGED <<ccFrames, chEvents, chAged, chOwner>>
    /\ ConcFrame

\* owner() or createSingleWallet rejects before a node has the transaction
\* (the recovery after "already known" is followed in SpecProvision).
CT_SubmitFails(p) ==
    /\ ccProc[p].pc = "submit"
    /\ ConcCaught(p, "error")
    /\ UNCHANGED <<ccFrames, chainVars>>
    /\ ConcFrame

\* const receipt = await tx.wait(); return parsed.args.wallet;
CT_Receipt(p) ==
    /\ ccProc[p].pc = "wait"
    /\ IsMined(ccProc[p].tx)
    /\ ConcFinish(p, "returned", EventOfTx(ccProc[p].tx).wallet, "ok")
    /\ UNCHANGED <<ccFrames, chainVars>>
    /\ ConcFrame

\* await tx.wait() rejects.
CT_WaitFails(p) ==
    /\ ccProc[p].pc = "wait"
    /\ ConcCaught(p, "error")
    /\ UNCHANGED <<ccFrames, chainVars>>
    /\ ConcFrame

NextConcurrent ==
    \E p \in Procs :
        \/ CC_Attempt(p)
        \/ CC_WalletCreated(p)
        \/ CC_WalletFails(p)
        \/ CC_BurnConfirmed(p)
        \/ CC_BurnFails(p)
        \/ CC_Poll(p)
        \/ CC_PollTimeout(p)
        \/ CC_MintConfirmed(p)
        \/ CC_MintFails(p)

NextRace ==
    \/ \E p \in Procs :
          \/ CT_Lookback(p)
          \/ CT_LookbackFails(p)
          \/ CC_Attempt(p)
          \/ CT_Submit(p)
          \/ CT_SubmitFails(p)
          \/ CT_Receipt(p)
          \/ CT_WaitFails(p)
    \/ (MineTx /\ UNCHANGED concVars /\ ConcFrame)
    \/ (BlocksPass /\ UNCHANGED concVars /\ ConcFrame)

\* ---------------------------------------------------------------------
\* TransferOnlyWallet and the USDC it holds (part_001 98-199).
\* ---------------------------------------------------------------------

\* Bounds of the token model.
MaxTokenBalance == 300
MaxTokenCalls == 3

\* address(0), the wallet, FEE_ADDRESS and two users; msg.sender is one of
\* the users, and dB is a stranger to a wallet of dA.
ZeroAddress == "0x0"
WalletAddress == "wallet"
FEE_ADDRESS == "fee"
Accounts == {WalletAddress, FEE_ADDRESS, "dA", "dB"}
Callers == {"dA", "dB"}
NewDestinations == {"dB", FEE_ADDRESS, ZeroAddress}

\* What a caller passes as uint256 amount, and what arrives in one deposit.
CallAmounts == {0, 1, 99, 100, 101, 250}
Deposits == {100, 150}

FeeAmountRoundedUp(amount) == (amount + 99) \div 100

\* feeAmount = amount / 100: the division of uint256 truncates.
FeeAmount(amount) == amount \div 100

\* destinationAmount = amount - feeAmount.
DestinationAmount(amount) == amount - FeeAmount(amount)

calculateFeeSplit(amount) ==
    [feeAmount |-> FeeAmount(amount), destinationAmount |-> DestinationAmount(amount)]

\* IERC20.transfer of the token, from the wallet.
TokenTransfer(balances, to, value) ==
    [a \in Accounts |->
        balances[a] - (IF a = WalletAddress THEN value ELSE 0)
                    + (IF a = to THEN value ELSE 0)]

\* The safeTransfers of one split, in the order of the code.
SplitTransfers(amount) ==
    LET split == calculateFeeSplit(amount)
    IN  (IF split.feeAmount > 0
         THEN <<[to |-> FEE_ADDRESS, value |-> split.feeAmount]>> ELSE <<>>)
        \o
        (IF split.destinationAmount > 0
         THEN <<[to |-> twDestination, value |-> split.destinationAmount]>> ELSE <<>>)

RECURSIVE ApplyTransfers(_, _)
ApplyTransfers(balances, transfers) ==
    IF transfers = <<>> THEN balances
    ELSE ApplyTransfers(TokenTransfer(balances, Head(transfers).to, Head(transfers).value),
                        Tail(transfers))

NoCall ==
    [fn |-> "none", caller |-> Undefined, amount |-> 0, result |-> "none",
     transfers |-> <<>>, before |-> [a \in Accounts |-> 0], destination |-> Undefined,
     calls |-> 0]

Called(fn, caller, amount, result, transfers) ==
    [fn |-> fn, caller |-> caller, amount |-> amount, result |-> result,
     transfers |-> transfers, before |-> twBalances, destination |-> twDestination,
     calls |-> twLast.calls + 1]

TokenBudget == twLast.calls < MaxTokenCalls

\* USDC arrives in the wallet: a mint or a transfer by its holder.
TW_Deposit ==
    /\ \E value \in Deposits :
        /\ twBalances[WalletAddress] + value <= MaxTokenBalance
        /\ twBalances' = [twBalances EXCEPT ![WalletAddress] = @ + value]
        /\ twLast' = [Called("deposit", Undefined, value, "ok", <<>>) EXCEPT !.calls = twLast.calls]
    /\ UNCHANGED twDestination
    /\ TokenFrame

\* A call that reverts changes nothing.
Reverted(fn, caller, amount) ==
    /\ twLast' = Called(fn, caller, amount, "reverted", <<>>)
    /\ UNCHANGED <<twDestination, twBalances>>

\* transferUSDC(amount) by any caller, the requires passed, the token paying.
TW_TransferUSDC ==
    /\ TokenBudget
    /\ \E caller \in Callers, amount \in CallAmounts :
        /\ amount > 0
        /\ twBalances[WalletAddress] >= amount
        /\ twBalances' = ApplyTransfers(twBalances, SplitTransfers(amount))
        /\ twLast' = Called("transferUSDC", caller, amount, "ok", SplitTransfers(amount))
    /\ UNCHANGED twDestination
    /\ TokenFrame

\* transferUSDC(amount) stopped by one of its two requires.
TW_TransferUSDCRejected ==
    /\ TokenBudget
    /\ \E caller \in Callers, amount \in CallAmounts :
        /\ amount = 0 \/ twBalances[WalletAddress] < amount
        /\ Reverted("transferUSDC", caller, amount)
    /\ TokenFrame

\* transferUSDC(amount) with a safeTransfer the token refuses: all is undone.
TW_TransferUSDCTokenReverts ==
    /\ TokenBudget
    /\ \E caller \in Callers, amount \in CallAmounts :
        /\ amount > 0
        /\ twBalances[WalletAddress] >= amount
        /\ Reverted("transferUSDC", caller, amount)
    /\ TokenFrame

\* transferAllUSDC(): the split of the whole balance.
TW_TransferAllUSDC ==
    /\ TokenBudget
    /\ \E caller \in Callers :
        LET balance == twBalances[WalletAddress]
        IN  IF balance > 0
            THEN /\ twBalances' = ApplyTransfers(twBalances, SplitTransfers(balance))
                 /\ twLast' = Called("transferAllUSDC", caller, balance, "ok",
                                     SplitTransfers(balance))
                 /\ UNCHANGED twDestination
            ELSE Reverted("transferAllUSDC", caller, balance)
    /\ TokenFrame

\* setDestination(newDestination): onlyDestination, and never address(0).
TW_SetDestination ==
    /\ TokenBudget
    /\ \E caller \in Callers, newDestination \in NewDestinations :
        IF caller = twDestination /\ newDestination # ZeroAddress
        THEN /\ twDestination' = newDestination
             /\ twLast' = Called("setDestination", caller, 0, "ok", <<>>)
             /\ UNCHANGED twBalances
        ELSE Reverted("setDestination", caller, 0)
    /\ TokenFrame

NextToken ==
    \/ TW_Deposit
    \/ TW_TransferUSDC
    \/ TW_TransferUSDCRejected
    \/ TW_TransferUSDCTokenReverts
    \/ TW_TransferAllUSDC
    \/ TW_SetDestination

\* constructor(initialDestination, _factory), the wallet still empty.
TokenInit ==
    /\ twDestination \in {"dA", FEE_ADDRESS}
    /\ twBalances = [a \in Accounts |-> 0]
    /\ twLast = NoCall

TokenIdle ==
    /\ twDestination = "dA"
    /\ twBalances = [a \in Accounts |-> 0]
    /\ twLast = NoCall

\* ---------------------------------------------------------------------
\* The store: the tables monomausers and monomarequests and the routes
\* that read and write them (server.js 153-199, 494-686).
\* ---------------------------------------------------------------------

\* Bounds of the store model: ticks of the database clock, and statements
\* of one HTTP request that fail in transport.
MaxClock == 2
MaxDbFaults == 5

\* runWithRetries(handler, { maxAttempts: 5, baseDelayMs: 500 }).
StoreMaxAttempts == 5
StoreBaseDelayMs == 500

\* SQL NULL and JavaScript's null.
Null == "null"

\* x || null.
OrNull(x) == IF Truthy(x) THEN x ELSE Null

\* The HTTP requests in flight.
Clients == {1, 2}

UserFields == {"smartwallets", "account", "chains", "destinedAddress"}
PatchFields == {"status", "hash", "descriptions"}

\* The column a field of the body is written to.
ColumnOf(field) == IF field = "destinedAddress" THEN "destined_address" ELSE field

ProvidedAll(body, fields) == fields

\* The fields of a body that are !== undefined: the SET list of an UPDATE.
Provided(body, fields) == {f \in fields : body[f] # Undefined}

NoUniqueViolation(rows, column, value) == FALSE

\* email VARCHAR(255) UNIQUE NOT NULL, payid VARCHAR(64) PRIMARY KEY: an
\* INSERT of a value a row already holds is refused.
UniqueViolation(rows, column, value) ==
    \E i \in 1..Len(rows) : rows[i][column] = value

\* SELECT ... WHERE column = value.
Select(rows, column, value) == {i \in 1..Len(rows) : rows[i][column] = value}

\* UPDATE ... SET the provided fields, updated_at = CURRENT_TIMESTAMP
\* WHERE column = value.
Update(rows, column, value, body, fields) ==
    [i \in 1..Len(rows) |->
        IF rows[i][column] = value
        THEN [c \in DOMAIN rows[i] |->
                IF c = "updated_at" THEN stClock
                ELSE IF \E f \in Provided(body, fields) : ColumnOf(f) = c
                     THEN body[CHOOSE f \in Provided(body, fields) : ColumnOf(f) = c]
                     ELSE rows[i][c]]
        ELSE rows[i]]

\* INSERT INTO monomausers (email, smartwallets, account, chains,
\* destined_address): account === true, the others || null.
UserRow(email, body) ==
    [email |-> email,
     smartwallets |-> OrNull(body["smartwallets"]),
     account |-> IF body["account"] = "true" THEN "true" ELSE "false",
     chains |-> OrNull(body["chains"]),
     destined_address |-> OrNull(body["destinedAddress"]),
     created_at |-> stClock,
     updated_at |-> stClock]

\* CONCAT('REQ', epoch, '-', random): the payid of a request sent without.
GeneratedPayids == {"REQ1", "REQ2"}

\* INSERT INTO monomarequests (payid, email, smartwallets, amount, status,
\* hash, descriptions).
RequestRow(payid, body) ==
    [payid |-> payid,
     email |-> body["email"],
     smartwallets |-> OrNull(body["smartwallets"]),
     amount |-> body["amount"],
     status |-> OrNull(body["status"]),
     hash |-> OrNull(body["hash"]),
     descriptions |-> OrNull(body["descriptions"]),
     created_at |-> stClock,
     updated_at |-> stClock]

\* One HTTP request: its route, the key of its path or body, its body, and
\* where its handler stands inside runWithRetries.
NewOp(route, key, body) ==
    [route |-> route, key |-> key, body |-> body, pc |-> "received", attempt |-> 0,
     status |-> 0, faults |-> 0, refused |-> 0, slept |-> <<>>]

Responded(c, status) ==
    stOps' = [stOps EXCEPT ![c].pc = "done", ![c].status = status]

\* catch (err) of runWithRetries: the last attempt ends the loop, the route
\* answers 500; any other attempt sleeps baseDelayMs * attempt.
StoreCaught(c, op) ==
    IF op.attempt >= StoreMaxAttempts
    THEN stOps' = [stOps EXCEPT ![c] = [op EXCEPT !.pc = "done", !.status = 500]]
    ELSE stOps' = [stOps EXCEPT ![c] = [op EXCEPT !.pc = "sleep"]]

\* The first statement of the handler of a route.
FirstStatement(route) == IF route = "POST /api/monomarequests" THEN "insert" ELSE "select"

\* The route is entered: 400 on a missing required field, before any query.
ST_Receive(c) ==
    /\ stOps[c].pc = "received"
    /\ LET op == stOps[c]
           missing ==
               CASE op.route = "POST /api/monomausers" -> ~Truthy(op.key)
                 [] op.route = "POST /api/monomarequests" ->
                        ~Truthy(op.body["email"]) \/ ~Truthy(op.body["amount"])
                 [] OTHER -> FALSE
       IN  IF missing
           THEN Responded(c, 400)
           ELSE stOps' = [stOps EXCEPT ![c].pc = FirstStatement(op.route), ![c].attempt = 1]
    /\ UNCHANGED <<stUsers, stRequests, stClock>>
    /\ StoreFrame

\* A statement fails before it takes effect: connection lost, pool timeout.
ST_QueryFails(c) ==
    /\ stOps[c].pc \in {"select", "insert", "update"}
    /\ stOps[c].faults < MaxDbFaults
    /\ StoreCaught(c, [stOps[c] EXCEPT !.faults = @ + 1])
    /\ UNCHANGED <<stUsers, stRequests, stClock>>
    /\ StoreFrame

\* The backoff of runWithRetries, then the next run of the handler.
ST_Sleep(c) ==
    /\ stOps[c].pc = "sleep"
    /\ stOps' = [stOps EXCEPT ![c].pc = FirstStatement(stOps[c].route),
                              ![c].slept = Append(@, RetryDelay(StoreBaseDelayMs, stOps[c].attempt)),
                              ![c].attempt = @ + 1]
    /\ UNCHANGED <<stUsers, stRequests, stClock>>
    /\ StoreFrame

\* CURRENT_TIMESTAMP moves on.
ST_Tick ==
    /\ stClock < MaxClock
    /\ stClock' = stClock + 1
    /\ UNCHANGED <<stUsers, stRequests, stOps>>
    /\ StoreFrame

\* POST /api/monomausers: SELECT * FROM monomausers WHERE email = $1, and
\* the branch on its rows; an existing user with no field given is a 400.
SU_Select(c) ==
    /\ stOps[c].route = "POST /api/monomausers"
    /\ stOps[c].pc = "select"
    /\ IF Select(stUsers, "email", stOps[c].key) # {}
       THEN IF Provided(stOps[c].body, UserFields) = {}
            THEN Responded(c, 400)
            ELSE stOps' = [stOps EXCEPT ![c].pc = "update"]
       ELSE stOps' = [stOps EXCEPT ![c].pc = "insert"]
    /\ UNCHANGED <<stUsers, stRequests, stClock>>
    /\ StoreFrame

\* POST /api/monomausers: the UPDATE of the existing user, 200.
SU_Update(c) ==
    /\ stOps[c].route = "POST /api/monomausers"
    /\ stOps[c].pc = "update"
    /\ stUsers' = Update(stUsers, "email", stOps[c].key, stOps[c].body, UserFields)
    /\ Responded(c, 200)
    /\ UNCHANGED <<stRequests, stClock>>
    /\ StoreFrame

\* POST /api/monomausers: the INSERT of a new user, 201, or the refusal of
\* the unique constraint, which runWithRetries catches.
SU_Insert(c) ==
    /\ stOps[c].route = "POST /api/monomausers"
    /\ stOps[c].pc = "insert"
    /\ IF UniqueViolation(stUsers, "email", stOps[c].key)
       THEN /\ StoreCaught(c, [stOps[c] EXCEPT !.refused = @ + 1])
            /\ UNCHANGED stUsers
       ELSE /\ stUsers' = Append(stUsers, UserRow(stOps[c].key, stOps[c].body))
            /\ Responded(c, 201)
    /\ UNCHANGED <<stRequests, stClock>>
    /\ StoreFrame

\* POST /api/monomarequests: the INSERT with COALESCE(payid, generated).
SR_Insert(c) ==
    /\ stOps[c].route = "POST /api/monomarequests"
    /\ stOps[c].pc = "insert"
    /\ \E generated \in GeneratedPayids :
        LET payid == IF stOps[c].key # Undefined THEN stOps[c].key ELSE generated
        IN  IF UniqueViolation(stRequests, "payid", payid)
            THEN /\ StoreCaught(c, [stOps[c] EXCEPT !.refused = @ + 1])
                 /\ UNCHANGED stRequests
            ELSE /\ stRequests' = Append(stRequests, RequestRow(payid, stOps[c].body))
                 /\ Responded(c, 201)
    /\ UNCHANGED <<stUsers, stClock>>
    /\ StoreFrame

\* GET /api/monomarequests/:payid: SELECT *, 404 or 200.
SR_Get(c) ==
    /\ stOps[c].route = "GET /api/monomarequests/:payid"
    /\ stOps[c].pc = "select"
    /\ Responded(c, IF Select(stRequests, "payid", stOps[c].key) = {} THEN 404 ELSE 200)
    /\ UNCHANGED <<stUsers, stRequests, stClock>>
    /\ StoreFrame

\* PATCH /api/monomarequests/:payid: SELECT 1, 404 without a row, 400
\* without a field.
SR_PatchSelect(c) ==
    /\ stOps[c].route = "PATCH /api/monomarequests/:payid"
    /\ stOps[c].pc = "select"
    /\ IF Select(stRequests, "payid", stOps[c].key) = {}
       THEN Responded(c, 404)
       ELSE IF Provided(stOps[c].body, PatchFields) = {}
            THEN Responded(c, 400)
            ELSE stOps' = [stOps EXCEPT ![c].pc = "update"]
    /\ UNCHANGED <<stUsers, stRequests, stClock>>
    /\ StoreFrame

\* PATCH /api/monomarequests/:payid: the UPDATE, 200.
SR_PatchUpdate(c) ==
    /\ stOps[c].route = "PATCH /api/monomarequests/:payid"
    /\ stOps[c].pc = "update"
    /\ stRequests' = Update(stRequests, "payid", stOps[c].key, stOps[c].body, PatchFields)
    /\ Responded(c, 200)
    /\ UNCHANGED <<stUsers, stClock>>
    /\ StoreFrame

NextUserStore ==
    \/ \E c \in Clients :
          \/ ST_Receive(c)
          \/ SU_Select(c)
          \/ SU_Update(c)
          \/ SU_Insert(c)
          \/ ST_QueryFails(c)
          \/ ST_Sleep(c)
    \/ ST_Tick

NextRequestStore ==
    \/ \E c \in Clients :
          \/ ST_Receive(c)
          \/ SR_Insert(c)
          \/ SR_Get(c)
          \/ SR_PatchSelect(c)
          \/ SR_PatchUpdate(c)
          \/ ST_QueryFails(c)
          \/ ST_Sleep(c)
    \/ ST_Tick

\* Bodies of POST /api/monomausers.
UserBody(smartwallets, account, chains, destinedAddress) ==
    [f \in UserFields |->
        CASE f = "smartwallets" -> smartwallets
          [] f = "account" -> account
          [] f = "chains" -> chains
          [] OTHER -> destinedAddress]

UserBodies ==
    {UserBody(Undefined, Undefined, Undefined, Undefined),
     UserBody(Undefined, Undefined, "base", Undefined),
     UserBody("0xw1", "true", Undefined, "0xd")}

UserEmails == {"a@x", Undefined}

\* Bodies of POST /api/monomarequests and of PATCH /api/monomarequests.
RequestFields == {"email", "smartwallets", "amount", "status", "hash", "descriptions"}

RequestBody(email, amount, status, hash, descriptions) ==
    [f \in RequestFields |->
        CASE f = "email" -> email
          [] f = "amount" -> amount
          [] f = "status" -> status
          [] f = "hash" -> hash
          [] f = "descriptions" -> descriptions
          [] OTHER -> Undefined]

CreateBodies ==
    {RequestBody("a@x", "1.5", "pending", Undefined, "lunch"),
     RequestBody("a@x", Undefined, Undefined, Undefined, Undefined)}

PatchBodies ==
    {RequestBody(Undefined, Undefined, Undefined, Undefined, Undefined),
     RequestBody(Undefined, Undefined, "paid", Undefined, Undefined),
     RequestBody(Undefined, Undefined, "paid", "0xh", Undefined),
     RequestBody(Undefined, Undefined, Undefined, Null, "dinner")}

Payids == {"p1", "p2"}

RequestOps ==
    {NewOp("POST /api/monomarequests", k, b) : k \in {"p1", Undefined}, b \in CreateBodies}
    \cup {NewOp("PATCH /api/monomarequests/:payid", k, b) : k \in Payids, b \in PatchBodies}
    \cup {NewOp("GET /api/monomarequests/:payid", k, RequestBody(Undefined, Undefined, Undefined, Undefined, Undefined)) : k \in Payids}

UserOps == {NewOp("POST /api/monomausers", k, b) : k \in UserEmails, b \in UserBodies}

\* The tables as initDatabase leaves them, or with a row of an earlier day.
StoredUsers ==
    {<<>>,
     <<[email |-> "a@x", smartwallets |-> Null, account |-> "false", chains |-> Null,
        destined_address |-> Null, created_at |-> 0, updated_at |-> 0]>>}

StoredRequests ==
    {<<>>,
     <<[payid |-> "p1", email |-> "a@x", smartwallets |-> Null, amount |-> "1.5",
        status |-> "pending", hash |-> Null, descriptions |-> "lunch",
        created_at |-> 0, updated_at |-> 0]>>}

StoreIdle ==
    /\ stUsers = <<>>
    /\ stRequests = <<>>
    /\ stClock = 0
    /\ stOps = [c \in Clients |-> NewOp("none", Undefined, <<>>)]

\* ---------------------------------------------------------------------
\* The pay page and its guard against a double payment
\* (Web/app/home/page.tsx 700-740, 878-1089).
\* ---------------------------------------------------------------------

\* Date.now() in units of 5 s; the page is opened at StartNow.
StartNow == 2
MaxNow == 4

\* The 10 s cooldown and the 5 s debounce, in these units.
CooldownUnits == 2
DebounceUnits == 1

\* The pages open on one payid: they share localStorage.
Tabs == {1, 2}

\* localStorage without the keys of the payid.
EmptyStorage ==
    [globalProcessingFlag |-> FALSE,   \* global-processing-<payid>
     globalPaymentKey |-> {},          \* payment-processing-<payid>: the time set
     processingKey |-> FALSE]          \* processing-payment-processing-<payid>

\* A page as it is mounted: isProcessingRef, lastPaymentTime, the state.
NewTab(selectedChain, isWalletConnected, paymentRequest) ==
    [isProcessing |-> FALSE, lastPaymentTime |-> 0, selectedChain |-> selectedChain,
     isWalletConnected |-> isWalletConnected, paymentRequest |-> paymentRequest,
     inFlight |-> FALSE, last |-> "none"]

\* Where handlePayment leaves, from its first line to the try: the
\* returns of lines 892-942, or the payment is started.
ClickOutcome(t) ==
    LET tab == pgTabs[t]
    IN  IF pgStorage.globalProcessingFlag THEN "already processing globally"
        ELSE IF \E at \in pgStorage.globalPaymentKey : pgNow - at < CooldownUnits
             THEN "cooldown"
        ELSE IF tab.isProcessing THEN "already processing"
        ELSE IF pgNow - tab.lastPaymentTime < DebounceUnits THEN "too soon"
        ELSE IF pgStorage.processingKey THEN "already being processed"
        ELSE IF ~tab.selectedChain \/ ~tab.isWalletConnected \/ ~tab.paymentRequest
             THEN "missing"
        ELSE "started"

\* localStorage.setItem(globalProcessingFlag, 'true') of line 898 has run
\* on every path but the first return.
FlagSetOnReturn(outcome) == outcome # "already processing globally"

\* localStorage.setItem(globalPaymentKey, now) and lastPaymentTime = now of
\* lines 922-923 have run.
TimeSetOnReturn(outcome) == outcome \in {"already being processed", "missing", "started"}

\* localStorage.setItem(processingKey, 'true') of line 933 has run.
KeySetOnReturn(outcome) == outcome \in {"missing", "started"}

\* The button, enabled unless isProcessing || !selectedChain, is clicked:
\* handlePayment runs to its return or to its first await.
PG_Click(t) ==
    /\ ~pgTabs[t].isProcessing
    /\ pgTabs[t].selectedChain
    /\ LET outcome == ClickOutcome(t)
       IN  /\ pgStorage' =
                [globalProcessingFlag |->
                    pgStorage.globalProcessingFlag \/ FlagSetOnReturn(outcome),
                 globalPaymentKey |->
                    IF TimeSetOnReturn(outcome) THEN {pgNow} ELSE pgStorage.globalPaymentKey,
                 processingKey |-> pgStorage.processingKey \/ KeySetOnReturn(outcome)]
           /\ pgTabs' = [pgTabs EXCEPT
                ![t].last = outcome,
                ![t].lastPaymentTime = IF TimeSetOnReturn(outcome) THEN pgNow ELSE @,
                ![t].isProcessing = outcome = "started",
                ![t].inFlight = outcome = "started"]
    /\ UNCHANGED pgNow
    /\ PageFrame

\* The payment ends, paid or failed: the finally of lines 1081-1088.
PG_PaymentEnds(t) ==
    /\ pgTabs[t].inFlight
    /\ \E result \in {"paid", "failed"} :
        pgTabs' = [pgTabs EXCEPT ![t].inFlight = FALSE, ![t].isProcessing = FALSE,
                                 ![t].last = result]
    /\ pgStorage' = EmptyStorage
    /\ UNCHANGED pgNow
    /\ PageFrame

\* The user connects a wallet.
PG_ConnectWallet(t) ==
    /\ ~pgTabs[t].isWalletConnected
    /\ pgTabs' = [pgTabs EXCEPT ![t].isWalletConnected = TRUE]
    /\ UNCHANGED <<pgStorage, pgNow>>
    /\ PageFrame

\* The user selects a chain.
PG_SelectChain(t) ==
    /\ ~pgTabs[t].selectedChain
    /\ pgTabs' = [pgTabs EXCEPT ![t].selectedChain = TRUE]
    /\ UNCHANGED <<pgStorage, pgNow>>
    /\ PageFrame

\* Five seconds pass.
PG_Tick ==
    /\ pgNow < MaxNow
    /\ pgNow' = pgNow + 1
    /\ UNCHANGED <<pgStorage, pgTabs>>
    /\ PageFrame

NextPage ==
    \/ \E t \in Tabs :
          \/ PG_Click(t)
          \/ PG_PaymentEnds(t)
          \/ PG_ConnectWallet(t)
          \/ PG_SelectChain(t)
    \/ PG_Tick

\* The pages mounted, the request fetched or not, no key in localStorage.
PageInit ==
    /\ pgStorage = EmptyStorage
    /\ pgTabs \in [Tabs -> {NewTab(FALSE, c, r) : c \in BOOLEAN, r \in BOOLEAN}]
    /\ pgNow = StartNow

PageIdle ==
    /\ pgStorage = EmptyStorage
    /\ pgTabs = [t \in Tabs |-> NewTab(FALSE, FALSE, FALSE)]
    /\ pgNow = 0

(***************************************************************************)
(* Specifications                                                          *)
(***************************************************************************)

ApartIdle == TokenIdle /\ StoreIdle /\ PageIdle

OthersIdle == TransferIdle /\ ConcIdle /\ ApartIdle

InitRetry ==
    RetryInit /\ AttestIdle /\ ChainIdle /\ WalletIdle /\ BurnIdle /\ BatchIdle /\ OthersIdle

SpecRetry == InitRetry /\ [][NextRetry]_vars

InitAttest ==
    AttestInit /\ RetryIdle /\ ChainIdle /\ WalletIdle /\ BurnIdle /\ BatchIdle /\ OthersIdle

SpecAttest == InitAttest /\ [][NextAttest]_vars

\* A sequence of MaxCalls provisioning calls on chains without wallets.
InitWallet ==
    /\ WalletInit /\ clBudget = MaxCalls /\ ChainInit
    /\ RetryIdle /\ AttestIdle /\ BurnIdle /\ BatchIdle /\ OthersIdle

SpecWallet == InitWallet /\ [][NextWallet]_vars

\* One provisioning call, on chains where somebody may have created a
\* transfer wallet before (createSingleWallet is open to every account).
PriorEvent(d) ==
    [wallet |-> 1, factory |-> TransferFactory, key |-> d, tx |-> 1, call |-> 0]

PriorLogs == {<<>>} \cup {<<PriorEvent(d)>> : d \in Destinations}

InitProvision ==
    /\ WalletInit
    /\ clBudget = 1
    /\ chEvents \in PriorLogs
    /\ chPending = <<>>
    /\ chAged = NothingAged
    /\ chOwner = [f \in Factories |-> "unknown"]
    /\ RetryIdle
    /\ AttestIdle
    /\ BurnIdle
    /\ BatchIdle
    /\ OthersIdle

SpecProvision == InitProvision /\ [][NextWallet]_vars

\* One burn request.
InitBurn ==
    BurnInit /\ RetryIdle /\ AttestIdle /\ ChainIdle /\ WalletIdle /\ BatchIdle /\ OthersIdle

SpecBurn == InitBurn /\ [][NextBurn]_vars

\* One batch request, on chains where somebody may have created a transfer
\* wallet before.
InitBatch ==
    /\ BatchInit
    /\ WalletInit
    /\ clBudget = 0
    /\ chEvents \in PriorLogs
    /\ chPending = <<>>
    /\ chAged = NothingAged
    /\ chOwner = [f \in Factories |-> "unknown"]
    /\ RetryIdle
    /\ AttestIdle
    /\ BurnIdle
    /\ OthersIdle

SpecBatch == InitBatch /\ [][NextBatch]_vars

\* One request of any route, with the server's event loop running: the
\* handler of the request takes its next step whenever one is possible,
\* that is, every await of a remote call is resumed with a result or an
\* error.  The transfer route is runWithRetries around one call of the SDK.
RequestKind ==
    CASE rwPc # "idle" -> "transfer"
      [] rwPc = "idle" /\ wpFn = "idle" -> "burn"
      [] rwPc = "idle" /\ wpFn # "idle" /\ clBudget = 0 -> "batch"
      [] OTHER -> "wallet"

InitRequest == InitRetry \/ InitBurn \/ InitBatch \/ InitProvision

NextRequest ==
    \/ RequestKind = "transfer" /\ NextRetry
    \/ RequestKind = "burn" /\ NextBurn
    \/ RequestKind = "batch" /\ NextBatch
    \/ RequestKind = "wallet" /\ NextWallet

\* Where the handler of the request stands: every step of a handler moves
\* it, the steps of the chain (mining, blocks passing) do not.
requestPosition ==
    <<rwPc, rwAttempt, faPc, faAttempts, faPolls, brPc, brAttempt, baPc, baIndex,
      wpFn, wpPc, wpAttempts, Len(clCalls), Len(baCalls)>>

SpecRequest == InitRequest /\ [][NextRequest]_vars /\ WF_requestPosition(NextRequest)

\* One provisioning call on factories that the operator deployed and owns
\* (constructor() Ownable(msg.sender)), or that another account owns, with
\* other accounts calling the factories as well.
InitFactory ==
    /\ WalletInit
    /\ clBudget = 1
    /\ chEvents = <<>>
    /\ chPending = <<>>
    /\ chAged = NothingAged
    /\ chOwner \in {[f \in Factories |-> o] : o \in OwnerAnswers}
    /\ RetryIdle
    /\ AttestIdle
    /\ BurnIdle
    /\ BatchIdle
    /\ OthersIdle

SpecFactory == InitFactory /\ [][NextFactory]_vars

AllIdle ==
    RetryIdle /\ AttestIdle /\ ChainIdle /\ WalletIdle /\ BurnIdle /\ BatchIdle /\ ApartIdle

\* The amounts of the requests followed through the SDK: none, an integer
\* string, decimal strings, zero, a string that is no number.
TransferAmounts ==
    {<<>>, Chars("1000000"), Chars("1.5"), Chars("0"), Chars("0.0000001"), Chars(".")}

\* One request to test-burn or transfer-usdc, followed up to the conversion
\* of its amount, for every amount string over AmountAlphabet.
InitAmount ==
    /\ TransferInit
    /\ trWalletAddress = "0xw1"
    /\ trChain \in {"base", "avalanche"}
    /\ trObserver = "absent"
    /\ trAmount \in AmountStrings
    /\ AllIdle
    /\ ConcIdle

SpecAmount == InitAmount /\ [][NextConvert]_vars

\* One request to test-burn or transfer-usdc, with the SDK's sequence.
InitTransfer ==
    /\ TransferInit
    /\ trAmount \in TransferAmounts
    /\ AllIdle
    /\ ConcIdle

SpecTransfer == InitTransfer /\ [][NextTransfer]_vars

\* Two requests in flight that target different wallets and chains: wallet
\* creations on factories of their own, burns from wallets of their own.
ConcKinds == {"wallet", "burn"}

InitConcurrent ==
    /\ ccProc \in {[p \in Procs |-> NewProc(k[p], p, "loop")] : k \in [Procs -> ConcKinds]}
    /\ ccFrames = [f \in Procs |-> NoFrame]
    /\ AllIdle
    /\ TransferIdle

SpecConcurrent == InitConcurrent /\ [][NextConcurrent]_vars

\* Two calls of createAvalancheTransferWallet in flight, for the same
\* destination or for two, on a transfer factory the operator owns.
InitRace ==
    /\ ccProc \in {[p \in Procs |-> NewProc("transfer", d[p], "lookback")] :
                      d \in [Procs -> Destinations]}
    /\ ccFrames = [f \in Procs |-> NoFrame]
    /\ chEvents = <<>>
    /\ chPending = <<>>
    /\ chAged = NothingAged
    /\ chOwner = [f \in Factories |-> Operator]
    /\ RetryIdle /\ AttestIdle /\ WalletIdle /\ BurnIdle /\ BatchIdle
    /\ TransferIdle
    /\ ApartIdle

SpecRace == InitRace /\ [][NextRace]_vars

\* TransferOnlyWallet under deposits and calls by anyone.
InitToken ==
    /\ TokenInit
    /\ StoreIdle
    /\ PageIdle
    /\ RetryIdle /\ AttestIdle /\ ChainIdle /\ WalletIdle /\ BurnIdle /\ BatchIdle
    /\ TransferIdle /\ ConcIdle

SpecToken == InitToken /\ [][NextToken]_vars

\* Concurrent upserts of POST /api/monomausers.
InitUserStore ==
    /\ stUsers \in StoredUsers
    /\ stRequests = <<>>
    /\ stClock = 1
    /\ stOps \in [Clients -> UserOps]
    /\ TokenIdle
    /\ PageIdle
    /\ RetryIdle /\ AttestIdle /\ ChainIdle /\ WalletIdle /\ BurnIdle /\ BatchIdle
    /\ TransferIdle /\ ConcIdle

SpecUserStore == InitUserStore /\ [][NextUserStore]_vars

\* Concurrent requests to the routes of monomarequests.
InitRequestStore ==
    /\ stUsers = <<>>
    /\ stRequests \in StoredRequests
    /\ stClock = 1
    /\ stOps \in [Clients -> RequestOps]
    /\ TokenIdle
    /\ PageIdle
    /\ RetryIdle /\ AttestIdle /\ ChainIdle /\ WalletIdle /\ BurnIdle /\ BatchIdle
    /\ TransferIdle /\ ConcIdle

SpecRequestStore == InitRequestStore /\ [][NextRequestStore]_vars

\* The pay page under clicks, in one tab or two.
InitPage ==
    /\ PageInit
    /\ TokenIdle
    /\ StoreIdle
    /\ RetryIdle /\ AttestIdle /\ ChainIdle /\ WalletIdle /\ BurnIdle /\ BatchIdle
    /\ TransferIdle /\ ConcIdle

SpecPage == InitPage /\ [][NextPage]_vars

(***************************************************************************)
(* Properties                                                              *)
(***************************************************************************)

rwDone == rwPc \in {"returned", "thrown"}

\* Number of invocations of action() that failed / were made.
rwCalls == Len(rwOutcomes)
rwAllFailed == \A i \in 1..Len(rwOutcomes) : rwOutcomes[i] \in ActionErrors

\* C1: for maxAttempts >= 1 and an action that fails on every invocation,
\* runWithRetries invokes the action exactly maxAttempts times (never more
\* at any point, never fewer at the end) and then raises a failure.
C1_AlwaysFailingExactlyMaxAttempts ==
    rwMaxAttempts >= 1 =>
        /\ rwCalls <= rwMaxAttempts
        /\ (rwDone /\ rwAllFailed) =>
              /\ rwPc = "thrown"
              /\ rwCalls = rwMaxAttempts
              /\ rwResult \in ActionErrors
        /\ rwPc = "thrown" => rwAllFailed

C1_Witness ==
    /\ rwPc = "thrown"
    /\ rwMaxAttempts = 3
    /\ rwCalls = 3
    /\ rwAllFailed

\* C2: for an action that fails exactly k < maxAttempts times and then
\* succeeds, runWithRetries invokes it exactly k+1 times, returns the success
\* value, and sleeps baseDelayMs * i before retry i, in total
\* baseDelayMs * (1 + 2 + ... + k), with no delay after the success.
C2_FailKThenSucceed ==
    rwPc = "returned" =>
        LET k == rwCalls - 1 IN
        /\ k < rwMaxAttempts
        /\ \A i \in 1..k : rwOutcomes[i] \in ActionErrors
        /\ rwResult = rwOutcomes[k + 1]
        /\ rwResult \in ActionValues
        /\ Len(rwSlept) = k
        /\ \A i \in 1..k : rwSlept[i] = rwBaseDelayMs * i
        /\ SumSeq(rwSlept) = rwBaseDelayMs * SumTo(k)

C2_Witness ==
    /\ rwPc = "returned"
    /\ rwCalls = 3
    /\ rwBaseDelayMs = 500
    /\ SumSeq(rwSlept) = 1500

\* C3: on exhaustion the failure raised is exactly the failure of the last
\* (maxAttempts-th) invocation, and no backoff delay is slept after the last
\* failing invocation (maxAttempts - 1 delays in all).
C3_RaisesLastFailure ==
    (rwPc = "thrown" /\ rwMaxAttempts >= 1) =>
        /\ rwCalls = rwMaxAttempts
        /\ rwResult = rwOutcomes[rwMaxAttempts]
        /\ Len(rwSlept) = rwMaxAttempts - 1

C3_Witness ==
    /\ rwPc = "thrown"
    /\ rwCalls = 3
    /\ rwOutcomes[1] = "errA"
    /\ rwOutcomes[3] = "errB"
    /\ rwResult = "errB"

faDone == faPc \in {"returned", "thrown"}

\* The last poll delivered a JSON body (fetch and json() both resolved).
faGotBody == faResponse.kind \in {"messages", "nomessages"}

faFirstEntryReady ==
    /\ faResponse.kind = "messages"
    /\ Len(faResponse.messages) > 0
    /\ EntryReady(faResponse.messages[1])

\* C9: fetchAttestation returns on attempt n <= 10 when the service first
\* reports "complete" with an attestation on attempt n, after exactly n polls;
\* when no poll of the 10 reports it, it raises after exactly 10 polls (the
\* timeout failure when the 10th poll was answered) and never polls an 11th
\* time.  "Reports complete" is read on the entry the poller inspects.
C9_PollsUntilCompleteOrTen ==
    /\ faPolls <= AttestationMaxAttempts
    /\ faPc = "returned" =>
          /\ faAttempts <= AttestationMaxAttempts
          /\ faPolls = faAttempts
          /\ faReadyAt = {faAttempts}
          /\ faResult.kind = "ok"
    /\ (faPc \in {"loop", "wait", "fetch"}) => faReadyAt = {}
    /\ faPc = "thrown" =>
          /\ faPolls = AttestationMaxAttempts
          /\ faReadyAt = {}
          /\ ~PollRaises(faResponse) => faResult = AttestationTimeout

C9_Witness ==
    /\ faPc = "returned"
    /\ faAttempts = 3
    /\ faPolls = 3
    /\ faErrors = 0

\* C10 as stated: a response is ready exactly when some entry, at any
\* position of the messages list, is complete with a non-empty attestation,
\* and that entry's attestation and message are returned.
C10_ReadyAtAnyPosition ==
    /\ faPc = "returned" =>
          \E i \in 1..Len(faResponse.messages) :
              /\ EntryReady(faResponse.messages[i])
              /\ faResult.attestation = faResponse.messages[i].attestation
              /\ faResult.message = faResponse.messages[i].message
    /\ (faPc \in {"loop", "wait", "fetch"} /\ faGotBody) =>
          ~ResponseReadyAnyEntry(faResponse)

\* C10 (amended): a response is ready exactly when its first message entry
\* is complete with a non-empty attestation; that entry's attestation and
\* message are returned.  Every other answered poll (no or empty list, first
\* entry pending or without attestation, whatever the later entries say)
\* raises nothing: the poller goes on to the next iteration, and a failure
\* other than the timeout is raised only by a poll that itself failed.
C10_ReadyIffFirstEntryComplete ==
    /\ faPc = "returned" =>
          /\ faFirstEntryReady
          /\ faResult.kind = "ok"
          /\ faResult.attestation = faResponse.messages[1].attestation
          /\ faResult.message = faResponse.messages[1].message
          /\ faResult.status = "complete"
    /\ (faPc \in {"loop", "wait", "fetch"} /\ faGotBody) => ~faFirstEntryReady
    /\ (faPc = "thrown" /\ faGotBody) =>
          /\ ~faFirstEntryReady
          /\ faResult = AttestationTimeout
    /\ (faPc = "thrown" /\ faResult # AttestationTimeout) => PollRaises(faResponse)

C10_Witness ==
    /\ faPc = "loop"
    /\ faAttempts = 2
    /\ faResponse.kind = "messages"
    /\ Len(faResponse.messages) = 2
    /\ ~EntryReady(faResponse.messages[1])
    /\ EntryReady(faResponse.messages[2])

\* C11 as stated: whenever fetchAttestation raises after its 10 attempts,
\* the failure is the attestation-timeout failure, also when the 10th
\* attempt ended in a network-level error.
C11_ExhaustionAlwaysTimeout ==
    faPc = "thrown" => faResult = AttestationTimeout

\* C11 (amended): fetchAttestation raises only after all 10 attempts, none
\* of which was ready.  The failure is the attestation-timeout failure when
\* the 10th poll was answered (not ready), whatever happened on attempts
\* 1..9; when the 10th poll itself failed, that poll's error is raised
\* instead of the timeout.
C11_TimeoutUnlessLastPollFailed ==
    faPc = "thrown" =>
        /\ faAttempts = AttestationMaxAttempts
        /\ faPolls = AttestationMaxAttempts
        /\ faReadyAt = {}
        /\ IF PollRaises(faResponse)
           THEN faResult = AttestationFailure(faResponse.kind)
           ELSE faResult = AttestationTimeout

C11_Witness ==
    /\ faPc = "thrown"
    /\ PollRaises(faResponse)
    /\ faErrors >= 2
    /\ faErrors < AttestationMaxAttempts
    /\ faResult # AttestationTimeout

\* C12: a network-level error on poll attempt i < 10 does not abort
\* polling: the poll counts as one of the 10 attempts, nothing is raised,
\* and the poller goes back to the loop head for attempt i + 1.
C12_NetworkErrorConsumesAttempt ==
    [][(faPc = "fetch" /\ faErrors' = faErrors + 1
            /\ faAttempts < AttestationMaxAttempts) =>
          /\ faPc' = "loop"
          /\ PollLoopCond(faAttempts')
          /\ faAttempts' = faAttempts
          /\ faPolls' = faPolls + 1
          /\ faPolls' = faAttempts'
          /\ faResult' = faResult]_vars

\* A ready response after an earlier network error yields success.
C12_Witness ==
    /\ faPc = "returned"
    /\ faErrors >= 1
    /\ faAttempts > 1
    /\ faResult.kind = "ok"

(***************************************************************************)
(* Wallet creation                                                         *)
(***************************************************************************)

\* C4: when the factory's owner differs from the operator signer's address,
\* a wallet-creation call fails after a single ownership check: the call in
\* progress never goes on after "Not factory owner" was raised, and a
\* finished call that raised it has thrown that failure after one attempt,
\* one owner() query and no createSingleWallet submission.
C4_OwnerMismatchNeverRetried ==
    /\ ~wpStats.notOwner
    /\ \A i \in 1..Len(clCalls) :
          clCalls[i].stats.notOwner =>
              /\ clCalls[i].outcome = "thrown"
              /\ clCalls[i].error = ErrNotOwner
              /\ clCalls[i].attempts = 1
              /\ clCalls[i].stats.ownerQueries = 1
              /\ clCalls[i].stats.submits = 0

\* C5: for every chain key that is not a key of CHAIN_CONFIGS,
\* createWalletOnChain fails with the unsupported-chain error before its
\* retry loop: the call in progress has not left the configuration check,
\* and the finished call has thrown "Unsupported chain" with no attempt, no
\* RPC and no backoff delay.
C5_UnsupportedChainFailsImmediately ==
    /\ (wpFn = "burnWallet" /\ wpChain \notin ChainConfigKeys) => wpPc = "config"
    /\ \A i \in 1..Len(clCalls) :
          (clCalls[i].fn = "burnWallet" /\ clCalls[i].chain \notin ChainConfigKeys) =>
              /\ clCalls[i].outcome = "thrown"
              /\ clCalls[i].error = ErrUnsupported
              /\ clCalls[i].attempts = 0
              /\ ~clCalls[i].stats.rpc
              /\ clCalls[i].stats.slept = 0

\* C7: transfer-wallet creation is idempotent: when
\* createAvalancheTransferWallet has returned twice in sequence for one
\* destination and the WalletCreated event of the first call lay within
\* the 50-block window at the second call's lookback, both calls returned
\* the same wallet address and together delivered at most one
\* createSingleWallet transaction to a node.
C7_TransferWalletIdempotent ==
    \A i \in 1..(Len(clCalls) - 1) :
        LET first == clCalls[i]
            second == clCalls[i + 1]
        IN  (/\ first.fn = "transferWallet" /\ second.fn = "transferWallet"
             /\ first.arg = second.arg
             /\ first.outcome = "returned" /\ second.outcome = "returned"
             /\ second.stats.sawPrior)
            => /\ first.value = second.value
               /\ first.stats.delivered + second.stats.delivered <= 1

\* C8: at most one wallet-creation transaction is confirmed on-chain for
\* each (chain, recipient/destination) pair: no two WalletCreated events
\* come from one factory for one recipient or destination.
C8_OneWalletPerPair ==
    \A i, j \in 1..Len(chEvents) :
        (chEvents[i].factory = chEvents[j].factory /\ chEvents[i].key = chEvents[j].key)
            => i = j

(***************************************************************************)
(* The burn route                                                          *)
(***************************************************************************)

\* C6: a burn request whose chain key is not a key of BURN_CONFIGS is never
\* retried: burnUSDCOnChain is invoked at most once, no backoff delay is
\* slept, and the response is the unsupported-chain failure after exactly
\* one invocation.
C6_UnsupportedBurnNeverRetried ==
    (brPc \notin {"idle", "validate"} /\ brResponse.status # 400
        /\ brChain \notin BurnConfigKeys) =>
        /\ brInvoked <= 1
        /\ brSlept = <<>>
        /\ brPc = "responded" =>
              /\ brResponse.status = 500
              /\ brResponse.error = ErrUnsupported
              /\ brInvoked = 1

(***************************************************************************)
(* Batch provisioning                                                      *)
(***************************************************************************)

baTransferReturned == Len(baCalls) >= 1 /\ baCalls[1].outcome = "returned"

baTransferFailed == Len(baCalls) >= 1 /\ baCalls[1].outcome = "thrown"

\* The lines of the calls that returned an address, in the order of the calls.
baLinesOfReturned ==
    LET ok == SelectSeq(baCalls, LAMBDA c : c.outcome = "returned")
    IN  [i \in 1..Len(ok) |-> [label |-> ToUpperCase(ok[i].chain), address |-> ok[i].value]]

\* Creation transactions that reached a burn factory.
baBurnFactoryTxs ==
    {chEvents[i].tx : i \in {j \in 1..Len(chEvents) : chEvents[j].factory \in BurnFactories}}
    \cup {chPending[i].id : i \in {j \in 1..Len(chPending) : chPending[j].factory \in BurnFactories}}

\* C13: once the transfer wallet is created, a failing burn-wallet creation
\* neither stops the loop nor fails the batch: the request is answered only
\* after createWalletOnChain was called for every chain of the list, the
\* answer is a success, and it lists the transfer wallet and exactly the
\* burn wallets of the chains whose creation returned.
C13_BurnFailureIsolated ==
    /\ (baTransferReturned /\ baPc = "responded") =>
          /\ baResponse.status = 200
          /\ Len(baCalls) = 1 + Len(BatchChains)
          /\ \A k \in 1..Len(BatchChains) :
                /\ baCalls[k + 1].fn = "burnWallet"
                /\ baCalls[k + 1].chain = BatchChains[k]
          /\ baResponse.body = baLinesOfReturned
          /\ baResponse.body[1] = [label |-> "AVALANCHE", address |-> baCalls[1].value]
    /\ (baTransferReturned /\ baPc # "responded") => baResponse = NoBatchResponse

C13_Witness ==
    /\ baPc = "responded"
    /\ baResponse.status = 200
    /\ Len(baCalls) = 3
    /\ baCalls[2].outcome = "thrown"
    /\ baCalls[3].outcome = "returned"
    /\ Len(baResponse.body) = 2

\* C14: when createAvalancheTransferWallet raises, the batch is answered
\* with a failure at once and no burn-wallet creation is attempted:
\* createWalletOnChain is never called and no transaction reaches a burn
\* factory.
C14_TransferFailureFatal ==
    baTransferFailed =>
        /\ baPc = "responded"
        /\ baResponse = [status |-> 500, body |-> ErrTransferWallet]
        /\ Len(baCalls) = 1
        /\ wpFn = "none"
        /\ baLines = <<>>
        /\ baBurnFactoryTxs = {}

C14_Witness ==
    /\ baTransferFailed
    /\ baCalls[1].fn = "transferWallet"
    /\ baPc = "responded"
    /\ baResponse.status = 500

\* C15: no burn-wallet creation starts before the transfer-wallet creation
\* has returned an address, and every burn-wallet creation of the batch,
\* and every transaction it sends to a burn factory, carries as
\* mintRecipient the 32-byte zero-padded encoding of that address.
C15_BurnWalletsUseTransferAddress ==
    /\ (wpFn = "burnWallet" \/ Len(baCalls) >= 2 \/ baBurnFactoryTxs # {}) =>
          /\ baTransferReturned
          /\ baCalls[1].fn = "transferWallet"
          /\ baAvalancheAddress = baCalls[1].value
    /\ wpFn = "burnWallet" => wpArg = [zeros |-> 12, address |-> baAvalancheAddress]
    /\ \A i \in 2..Len(baCalls) :
          /\ baCalls[i].fn = "burnWallet"
          /\ baCalls[i].arg = [zeros |-> 12, address |-> baAvalancheAddress]
    /\ \A i \in 1..Len(chEvents) :
          chEvents[i].factory \in BurnFactories =>
              chEvents[i].key = [zeros |-> 12, address |-> baAvalancheAddress]
    /\ \A i \in 1..Len(chPending) :
          chPending[i].factory \in BurnFactories =>
              chPending[i].key = [zeros |-> 12, address |-> baAvalancheAddress]

C15_Witness ==
    /\ baPc = "responded"
    /\ baResponse.status = 200
    /\ Len(baResponse.body) >= 2
    /\ \E i \in 1..Len(chEvents) : chEvents[i].factory \in BurnFactories

(***************************************************************************)
(* Burn, attest, mint                                                      *)
(***************************************************************************)

\* The stage of the current invocation of the burn sequence: 0 created,
\* 1 burn submitted, 2 burn confirmed and attestation pending, 3 attestation
\* complete, 4 mint submitted, 5 mint confirmed, 6 failed.
brStage ==
    CASE brPc \in {"idle", "validate", "config", "burn"} -> 0
      [] brPc = "wait" -> 1
      [] brPc = "attest" -> 2
      [] brPc = "mint" -> 3
      [] brPc = "mintwait" -> 4
      [] brPc = "responded" /\ brResponse.status = 200 -> 5
      [] OTHER -> 6

\* C16: within one run of burnUSDCOnChain the stages occur in order.  The
\* poller runs only after the run's burn was confirmed, for that burn's hash
\* and the source domain of the chain; receiveMessage is submitted only
\* after the poller returned a complete attestation, with exactly the
\* message and attestation it returned; a run whose burn or attestation
\* failed submits no mint.
C16_StagesInOrder ==
    /\ [](/\ brPc = "attest" =>
                /\ brTx.hash = BurnHash(brBurnTxs)
                /\ brAttestKey = [domain |-> BurnChainId(brChain), hash |-> brTx.hash]
                /\ brBurnsConfirmed >= 1
          /\ (faPc \notin {"idle", "returned", "thrown"}) => brPc = "attest"
          /\ brPc \in {"mint", "mintwait"} =>
                /\ faPc = "returned"
                /\ brAttestKey.hash = brTx.hash
                /\ brAttestation = faResult
                /\ brAttestation.kind = "ok"
                /\ brAttestation.status = "complete"
          /\ brMintTx.hash # NoHash =>
                /\ brTx.hash # NoHash
                /\ brAttestation.kind = "ok"
                /\ brMintTx.message = brAttestation.message
                /\ brMintTx.attestation = brAttestation.attestation
          /\ brMintTxs <= brBurnsConfirmed)
    /\ [][/\ (faAttempts' = 0 /\ faPc' = "loop" /\ faPc # "loop") =>
                /\ brPc = "wait"
                /\ brBurnsConfirmed' = brBurnsConfirmed + 1
                /\ brAttestKey'.hash = brTx.hash
          /\ (brMintTxs' # brMintTxs) =>
                /\ brPc = "mint"
                /\ faPc = "returned"
                /\ brMintTx'.message = faResult.message
                /\ brMintTx'.attestation = faResult.attestation]_vars

C16_Witness ==
    /\ brPc = "mintwait"
    /\ brAttempt = 2
    /\ brBurnTxs = 2
    /\ brMintTxs = 1
    /\ brMintTx.message = "0xm2"
    /\ brChain = "avalanche"

\* C17: an invocation only moves forward through the stages, one at a time
\* or to failed, and the request reports success exactly when an
\* invocation reached mint confirmed: every other answer is a failure.
C17_SuccessIffMintConfirmed ==
    /\ [](/\ brPc = "responded" =>
                /\ brResponse.status \in {200, 400, 500}
                /\ brResponse.status = 200 <=> brMintsConfirmed = 1
                /\ brResponse.status = 200 =>
                      /\ brMintTx.hash = MintHash(brMintTxs)
                      /\ brResponse.body.arbitrumMint.transactionHash = brMintTx.hash
                      /\ brResponse.error = Undefined
                /\ brResponse.status # 200 => brResponse.error # Undefined
          /\ brPc # "responded" =>
                /\ brMintsConfirmed = 0
                /\ brResponse = NoBurnResponse)
    /\ [][brAttempt' = brAttempt =>
            LET before == brStage
                after == brStage'
            IN  after \in {before, before + 1, 6}]_vars

C17_Witness ==
    /\ brPc = "responded"
    /\ brResponse.status = 200
    /\ brAttempt = 3
    /\ brBurnsConfirmed = 3

\* C18: a burn request whose first invocation runs through (the burn
\* confirms, the poller returns, the mint confirms) is answered with chain,
\* transactionHash = the burn's hash, walletAddress and amountBurned as
\* requested, and arbitrumMint naming chain "arbitrum" and the mint's hash,
\* after exactly one burn and one mint were submitted.
C18_EndToEndResult ==
    (brPc = "responded" /\ brResponse.status = 200 /\ brAttempt = 1) =>
        /\ brResponse.body.chain = brChain
        /\ brResponse.body.transactionHash = BurnHash(1)
        /\ brResponse.body.walletAddress = brWalletAddress
        /\ brResponse.body.amountBurned = brAmount
        /\ brResponse.body.attestation = faResult.attestation
        /\ brResponse.body.arbitrumMint.chain = "arbitrum"
        /\ brResponse.body.arbitrumMint.transactionHash = MintHash(1)
        /\ brBurnTxs = 1
        /\ brBurnsConfirmed = 1
        /\ brMintTxs = 1

\* Burn of "1000000" on "base" for wallet "0xw1", complete on the 2nd poll.
C18_Witness ==
    /\ brPc = "responded"
    /\ brResponse.status = 200
    /\ brAttempt = 1
    /\ brChain = "base"
    /\ brWalletAddress = "0xw1"
    /\ brAmount = "1000000"
    /\ faPolls = 2
    /\ faErrors = 0
    /\ brResponse.body.amountBurned = "1000000"

\* C19: the whole-sequence retry does not guard against double-burning.  A
\* failure with attempts left sleeps the backoff and returns to the head
\* of the loop; the next invocation starts from nothing and submits a
\* further burn of the requested amount.  The confirmed burns of a request
\* are bounded by the 5 attempts only; at most one mint is confirmed.
C19_RetryBurnsAgain ==
    /\ [](/\ brMintsConfirmed <= 1
          /\ brBurnsConfirmed <= brBurnTxs
          /\ brBurnTxs <= brAttempt
          /\ brAttempt <= BurnMaxAttempts
          /\ brTx.hash # NoHash =>
                /\ brTx.amount = brAmount
                /\ brTx.wallet = brWalletAddress)
    /\ [][/\ brSlept' # brSlept =>
                /\ brAttempt < BurnMaxAttempts
                /\ brPc' = "loop"
                /\ brBurnsConfirmed' = brBurnsConfirmed
          /\ brAttempt' # brAttempt =>
                /\ brPc' = "config"
                /\ brTx' = NoBurnTx
          /\ brBurnTxs' # brBurnTxs =>
                /\ brPc = "burn"
                /\ brTx'.hash = BurnHash(brBurnTxs + 1)
                /\ brTx'.amount = brAmount]_vars

C19_Witness ==
    /\ brPc = "responded"
    /\ brResponse.status = 500
    /\ brBurnsConfirmed = BurnMaxAttempts
    /\ brMintsConfirmed = 0

(***************************************************************************)
(* Termination                                                             *)
(***************************************************************************)

\* The request was answered: runWithRetries returned or threw, the burn
\* and batch routes sent their response, the provisioning call finished.
RequestDone ==
    CASE RequestKind = "transfer" -> rwPc \in {"returned", "thrown"}
      [] RequestKind = "burn" -> brPc = "responded" /\ brResponse.status \in {200, 400, 500}
      [] RequestKind = "batch" -> baPc = "responded" /\ baResponse.status \in {200, 400, 500}
      [] OTHER -> wpFn = "none" /\ Len(clCalls) = clBudget

\* C20: when every remote call returns or fails, every request (burn,
\* transfer, wallet creation, batch provisioning) is eventually answered,
\* with success or failure, and stays answered; no loop passes its attempt
\* budget.
C20_EveryRequestTerminates ==
    /\ [](/\ rwAttempt <= rwMaxAttempts
          /\ brAttempt <= BurnMaxAttempts
          /\ faAttempts <= AttestationMaxAttempts
          /\ wpFn \in {"burnWallet", "transferWallet"} => wpAttempts <= WalletMaxAttempts(wpFn))
    /\ <>[]RequestDone

\* A burn request answered with a failure after all 5 attempts, the last
\* of which polled the attestation service 10 times.
C20_Witness ==
    /\ RequestKind = "burn"
    /\ RequestDone
    /\ brResponse.status = 500
    /\ brAttempt = BurnMaxAttempts
    /\ faAttempts = AttestationMaxAttempts
    /\ Len(brSlept) = BurnMaxAttempts - 1

(***************************************************************************)
(* Attempt budgets and waits of the provisioner and the poller             *)
(***************************************************************************)

\* The positions of an attempt a failure can be caught from.
wpAttemptStages == {"construct", "owner", "submit", "wait", "recover"}

\* The step finishes the call in progress by raising.
wpThrows ==
    /\ Len(clCalls') = Len(clCalls) + 1
    /\ clCalls'[Len(clCalls')].outcome = "thrown"

\* C25: after createSingleWallet of a transfer-wallet call failed with
\* "already known", the call submits nothing further: it is re-scanning,
\* or it has returned the wallet recovered from the re-scan.
C25_AlreadyKnownRecoversWithoutResubmit ==
    /\ (wpFn = "transferWallet" /\ wpStats.err = ErrAlreadyKnown) => wpPc = "recover"
    /\ \A i \in 1..Len(clCalls) :
          (clCalls[i].fn = "transferWallet" /\ clCalls[i].stats.err = ErrAlreadyKnown) =>
              /\ clCalls[i].outcome = "returned"
              /\ clCalls[i].stats.path = "recovered"

\* C28: createWalletOnChain makes at most 6 attempts and retries after
\* every failure; after failed attempt i < 6 it sleeps 1500 ms * i, after
\* the 6th it raises that attempt's failure without sleeping.
C28_BurnWalletSixAttempts ==
    /\ [](/\ wpFn = "burnWallet" => wpAttempts <= 6
          /\ \A i \in 1..Len(clCalls) :
                LET rec == clCalls[i] IN
                rec.fn = "burnWallet" =>
                    /\ rec.attempts <= 6
                    /\ rec.outcome = "returned" =>
                          rec.stats.slept = 750 * rec.attempts * (rec.attempts - 1)
                    /\ (rec.outcome = "thrown" /\ rec.error # ErrUnsupported) =>
                          /\ rec.attempts = 6
                          /\ rec.stats.slept = 1500 * (1 + 2 + 3 + 4 + 5))
    /\ [][(wpFn = "burnWallet" /\ wpPc \in wpAttemptStages) =>
            /\ wpPc' = "loop" =>
                  /\ wpAttempts < 6
                  /\ wpStats'.slept = wpStats.slept + 1500 * wpAttempts
            /\ wpThrows =>
                  /\ wpAttempts = 6
                  /\ clCalls'[Len(clCalls')].stats.slept = wpStats.slept
                  /\ clCalls'[Len(clCalls')].error \in
                        (CASE wpPc = "construct" -> {ErrInvalidTarget}
                           [] wpPc = "owner" -> {ErrNotOwner, ErrNetwork}
                           [] wpPc = "submit" -> {ErrNetwork, ErrAlreadyKnown}
                           [] wpPc = "wait" -> {ErrNetwork, ErrNoEvent}
                           [] OTHER -> {ErrNetwork})]_vars

C28_Witness ==
    \E i \in 1..Len(clCalls) :
        /\ clCalls[i].fn = "burnWallet"
        /\ clCalls[i].outcome = "thrown"
        /\ clCalls[i].attempts = 6
        /\ clCalls[i].stats.notOwner
        /\ clCalls[i].error = ErrNetwork
        /\ clCalls[i].stats.slept = 22500

\* C29: createAvalancheTransferWallet makes at most 3 attempts, so at most
\* 3 createSingleWallet calls; after failed attempt i < 3 it sleeps
\* 3000 ms * i, after the 3rd it raises that attempt's failure.
C29_TransferWalletThreeAttempts ==
    /\ [](/\ wpFn = "transferWallet" =>
                /\ wpAttempts <= 3
                /\ wpStats.submits <= wpAttempts
          /\ \A i \in 1..Len(clCalls) :
                LET rec == clCalls[i] IN
                rec.fn = "transferWallet" =>
                    /\ rec.attempts <= 3
                    /\ rec.stats.submits <= 3
                    /\ rec.outcome = "thrown" => rec.attempts = 3)
    /\ [][(wpFn = "transferWallet" /\ wpPc \in wpAttemptStages) =>
            /\ wpPc' = "loop" =>
                  /\ wpAttempts < 3
                  /\ wpStats'.slept = wpStats.slept + 3000 * wpAttempts
            /\ wpThrows =>
                  /\ wpAttempts = 3
                  /\ clCalls'[Len(clCalls')].stats.slept = wpStats.slept
                  /\ clCalls'[Len(clCalls')].error \in
                        (CASE wpPc = "owner" -> {ErrNotOwner, ErrNetwork}
                           [] wpPc = "recover" -> {ErrAlreadyKnown}
                           [] wpPc = "wait" -> {ErrNetwork, ErrNoEvent}
                           [] OTHER -> {ErrNetwork})]_vars

C29_Witness ==
    \E i \in 1..Len(clCalls) :
        /\ clCalls[i].fn = "transferWallet"
        /\ clCalls[i].outcome = "thrown"
        /\ clCalls[i].attempts = 3
        /\ clCalls[i].stats.submits = 3
        /\ clCalls[i].stats.slept = 3000 + 6000

\* C30: fetchAttestation waits before every poll, 10 s before the first
\* and 5 s before each later one: a call that ends on attempt n has waited
\* 10 + 5 (n - 1) seconds and has sent at most n requests, none of them
\* before the first 10 s had passed.
C30_WaitsBeforeEveryPoll ==
    /\ [](/\ faPc \in {"returned", "thrown"} =>
                /\ faAttempts \in 1..AttestationMaxAttempts
                /\ faWaited = 10000 + 5000 * (faAttempts - 1)
                /\ faPolls <= faAttempts
          /\ faPolls > 0 => faWaited >= 10000
          /\ faPc = "fetch" => faWaited = 10000 + 5000 * (faAttempts - 1))
    /\ [][faPolls' # faPolls =>
            /\ faPc = "fetch"
            /\ faPolls' = faPolls + 1
            /\ faWaited >= 10000 + 5000 * faPolls]_vars

C30_Witness ==
    /\ faPc = "returned"
    /\ faAttempts = 4
    /\ faPolls = 4
    /\ faErrors = 1
    /\ faWaited = 25000

(***************************************************************************)
(* The factories                                                           *)
(***************************************************************************)

\* C26: createSingleWallet is owner-gated on both factories: on a factory
\* the operator owns, no wallet is created and no WalletCreated event is
\* emitted by a transaction that somebody else sent.
C26_CreationOwnerGated ==
    \A i \in 1..Len(chEvents) :
        chOwner[chEvents[i].factory] = Operator => chEvents[i].call # 0

(***************************************************************************)
(* The conversion of the amount                                            *)
(***************************************************************************)

\* "D.F": digits, one point, digits.
IsDecimalString(s) ==
    LET d == DigitRun(s, 1)
    IN  /\ d >= 1
        /\ d + 1 < Len(s)
        /\ s[d + 1] = "."
        /\ d + 1 + DigitRun(s, d + 2) = Len(s)

\* floor(D.F * 1000000) in exact arithmetic, for F of at most six digits.
ExactBaseUnits(s) ==
    LET d == DigitRun(s, 1)
        f == Len(s) - d - 1
    IN  DigitsValue(SubSeq(s, 1, d)) * 1000000
        + (DigitsValue(SubSeq(s, d + 2, Len(s))) * 1000000) \div Pow(10, f)

\* C23: once a route has converted the amount of its request, amountBigInt
\* is floor(D.F * 1000000), computed exactly, for a decimal string "D.F",
\* and the integer the string denotes for a string of digits.
C23_ConversionExact ==
    trPc = "loop" =>
        /\ IsDecimalString(trAmount) => trAmountBigInt = ExactBaseUnits(trAmount)
        /\ ~Includes(trAmount, ".") => trAmountBigInt = DigitsValue(trAmount)

\* A string of digits: an amount in base units.
IsIntegerString(s) == Len(s) > 0 /\ \A i \in 1..Len(s) : s[i] \in DecimalDigits

\* C24: on every route that leads to a burn, the amount handed to the chain
\* call is an integer of base units: burnUSDCOnChain calls
\* contract.burnUSDC with a string of digits, and the SDK is called with
\* an integer.
C24_IntegerAtChainCall ==
    /\ brPc = "burn" => IsIntegerString(Chars(brAmount))
    /\ \A i \in 1..Len(trSdkCalls) : trSdkCalls[i].amount \in Nat

(***************************************************************************)
(* The observer of the SDK's sequence                                      *)
(***************************************************************************)

IsPrefix(s, t) == Len(s) <= Len(t) /\ SubSeq(t, 1, Len(s)) = s

\* What the steps of a run must be at each position of the sequence when
\* an observer is attached.
StepsAt(pc) ==
    CASE pc = "burn" -> 0
      [] pc = "attestation" -> 1
      [] pc = "mint" -> 2
      [] pc = "complete" -> 3
      [] OTHER -> 4

\* What the request's outcome must be, given how its SDK calls ended: the
\* last call ended without a failure, or the budget is used up.
OutcomeOf(route, outcomes) ==
    IF outcomes[Len(outcomes)] = "none" THEN 200 ELSE 500

\* C27: the observer is told the stages in the order burn, attestation,
\* mint, complete, each at most once in a run; a successful transfer has
\* told it all four; and the response (status, hashes, result) is decided
\* by how the stages themselves ended, whatever the observer is or does.
C27_ObserverOnlyObserves ==
    /\ IsPrefix(trRun.steps, TransferSteps)
    /\ trObserver = "absent" => trRun.steps = <<>>
    /\ trObserver # "absent" /\ trPc \in {"burn", "attestation", "mint", "complete"}
          => Len(trRun.steps) = StepsAt(trPc)
    /\ trPc = "responded" /\ trAttempt > 0 =>
          /\ trAttempt = Len(trOutcomes)
          /\ trResponse.status = OutcomeOf(trRoute, trOutcomes)
          /\ \A i \in 1..(Len(trOutcomes) - 1) : trOutcomes[i] # "none"
          /\ trResponse.status = 500 => Len(trOutcomes) = TransferBudget(trRoute)
          /\ trResponse.status = 200 /\ trRoute = "transfer-usdc" =>
                /\ trObserver # "absent" => trRun.steps = TransferSteps
                /\ trResponse.body.burnTxHash = BurnHash(trCounts.burns)
                /\ trResponse.body.mintTxHash = MintHash(trCounts.mints)
                /\ trCounts.mints = 1
                /\ trCounts.burns = Cardinality({i \in 1..Len(trOutcomes) : trOutcomes[i] # "burn"})
                /\ trResponse.body.amount = trAmount
                /\ trResponse.body.walletAddress = trWalletAddress

\* A transfer that succeeds on its second run with an observer that raises
\* at every notification.
C27_Witness ==
    /\ trPc = "responded"
    /\ trRoute = "transfer-usdc"
    /\ trObserver = "throws"
    /\ trResponse.status = 200
    /\ trRun.steps = TransferSteps
    /\ trAttempt = 2
    /\ trResponse.body.mintTxHash = MintHash(1)

(***************************************************************************)
(* Requests in flight together                                             *)
(***************************************************************************)

\* How a request that has ended must have ended, given what it was
\* answered itself: it returns when its last answer was a success, it
\* raises when its last answer was a failure and its budget is used up.
ConcOutcomeAlone(p) ==
    IF ccProc[p].own.last = "ok" THEN "returned" ELSE "thrown"

\* C21: with two requests on different wallets and chains in flight, under
\* every interleaving, the attempt counter and the poll counter of each
\* request count its own attempts and polls, and its outcome is the one
\* its own answers decide, as when it runs alone.
C21_NoInterference ==
    \A p \in Procs :
        /\ ccAttemptsOf(p) = ccProc[p].own.attempts
        /\ ccPollsOf(p) = ccProc[p].own.polls
        /\ ccAttemptsOf(p) <= ConcBudget(ccProc[p].kind)
        /\ ccPollsOf(p) <= AttestationMaxAttempts
        /\ ccProc[p].pc = "done" =>
              /\ ccProc[p].outcome = ConcOutcomeAlone(p)
              /\ ccProc[p].outcome = "thrown" =>
                    ccProc[p].own.attempts = ConcBudget(ccProc[p].kind)
        /\ ccProc[p].pc # "done" => ccProc[p].outcome = "none"

\* A wallet creation that used its six attempts and a burn that returned
\* on its second invocation, side by side.
C21_Witness ==
    /\ ccProc[1].kind = "wallet" /\ ccProc[1].outcome = "thrown"
    /\ ccProc[1].own.attempts = 6
    /\ ccProc[2].kind = "burn" /\ ccProc[2].outcome = "returned"
    /\ ccProc[2].own.attempts = 2
    /\ ccProc[2].own.polls >= 1

\* The wallets the log holds for a destination.
WalletsFor(d) ==
    {chEvents[i].wallet : i \in {j \in 1..Len(chEvents) :
        chEvents[j].factory = TransferFactory /\ chEvents[j].key = d}}

\* C22: nothing but the lookback stands between a call of
\* createAvalancheTransferWallet and a creation: a call submits only after
\* a lookback that found no event for its destination (or failed), whatever
\* other calls for that destination are doing; every creation mined
\* deploys a wallet of its own; and a call that waited for its transaction
\* returns the wallet of that transaction.  Two calls for one destination
\* whose lookbacks both ran before either creation was mined therefore
\* create two wallets.
C22_OnlyTheLookbackGuards ==
    /\ \A p \in Procs :
          /\ ccProc[p].tx # 0 \/ ccProc[p].pc \in {"loop", "submit", "wait"}
                => ccProc[p].lookback \in {"empty", "failed"} /\ ccProc[p].saw = 0
          /\ ccProc[p].lookback = "found" => ccProc[p].tx = 0 /\ ccProc[p].saw > 0
          /\ ccProc[p].outcome = "returned" /\ ccProc[p].lookback # "found"
                => /\ IsMined(ccProc[p].tx)
                   /\ ccProc[p].value = EventOfTx(ccProc[p].tx).wallet
                   /\ EventOfTx(ccProc[p].tx).key = ccProc[p].target
    /\ \A i, j \in 1..Len(chEvents) : i # j => chEvents[i].wallet # chEvents[j].wallet
    /\ \A p, q \in Procs :
          /\ p # q
          /\ ccProc[p].outcome = "returned" /\ ccProc[q].outcome = "returned"
          /\ ccProc[p].lookback = "empty" /\ ccProc[q].lookback = "empty"
          => ccProc[p].value # ccProc[q].value

\* Both calls are for destination dA; both looked back while the log was
\* empty and found nothing; both submitted once; both transactions are
\* mined and each call returned its own wallet: dA has two wallets.
C22_Witness ==
    /\ \A p \in Procs :
          /\ ccProc[p].target = "dA"
          /\ ccProc[p].lookback = "empty"
          /\ ccProc[p].logLen = 0
          /\ ccProc[p].own.attempts = 1
          /\ ccProc[p].outcome = "returned"
    /\ ccProc[1].value # ccProc[2].value
    /\ Cardinality(WalletsFor("dA")) = 2

(***************************************************************************)
(* A receipt without the event                                             *)
(***************************************************************************)

\* The step in which an attempt finds no WalletCreated log in its receipt.
wpNoEventStep ==
    /\ wpPc = "wait"
    /\ \/ wpStats'.noEvent = wpStats.noEvent + 1
       \/ /\ Len(clCalls') = Len(clCalls) + 1
          /\ clCalls'[Len(clCalls')].stats.noEvent = wpStats.noEvent + 1

\* C31: an attempt whose transaction is confirmed but whose receipt holds
\* no WalletCreated log fails with "no event found", a failure of its own
\* and not a transport failure; before the last attempt the failure is
\* followed by the backoff and the next attempt, on the last attempt it is
\* the failure raised to the caller.
C31_NoEventRetried ==
    /\ ErrNoEvent \notin {ErrNetwork, ErrAlreadyKnown, ErrNotOwner, ErrInvalidTarget,
                          ErrUnsupported}
    /\ [][wpNoEventStep =>
            /\ IsMined(wpTx)
            /\ IF wpAttempts < WalletMaxAttempts(wpFn)
               THEN /\ wpPc' = "loop"
                    /\ wpAttempts' = wpAttempts
                    /\ wpStats'.slept = wpStats.slept + WalletBackoffMs(wpFn, wpAttempts)
                    /\ clCalls' = clCalls
               ELSE /\ clCalls'[Len(clCalls')].outcome = "thrown"
                    /\ clCalls'[Len(clCalls')].error = ErrNoEvent
                    /\ clCalls'[Len(clCalls')].attempts = WalletMaxAttempts(wpFn)]_vars

\* A call whose first receipt had no event, that went on to further
\* attempts, and whose last attempt raised "no event found".
C31_Witness ==
    \E i \in 1..Len(clCalls) :
        /\ clCalls[i].outcome = "thrown"
        /\ clCalls[i].error = ErrNoEvent
        /\ clCalls[i].attempts = WalletMaxAttempts(clCalls[i].fn)
        /\ clCalls[i].stats.noEvent = 2

\* C35: the address a call of createAvalancheTransferWallet returns, by
\* the lookback, by its own receipt or by the recovery after "already
\* known", is the wallet of a WalletCreated event of the transfer factory
\* whose destination is the destination of the call.
C35_ReturnedWalletForDestination ==
    \A i \in 1..Len(clCalls) :
        (clCalls[i].fn = "transferWallet" /\ clCalls[i].outcome = "returned") =>
            \E j \in 1..Len(chEvents) :
                /\ chEvents[j].factory = TransferFactory
                /\ chEvents[j].wallet = clCalls[i].value
                /\ chEvents[j].key = clCalls[i].arg

\* The wallets that the transactions of the i-th call deployed.
WalletsOfCall(i) ==
    {chEvents[j].wallet : j \in {k \in 1..Len(chEvents) : chEvents[k].call = i}}

\* C36: a call of createWalletOnChain deploys at most one wallet over all
\* its attempts, and the address it returns is that wallet's.
C36_OneWalletPerCall ==
    \A i \in 1..Len(clCalls) :
        clCalls[i].fn = "burnWallet" =>
            /\ Cardinality(WalletsOfCall(i)) <= 1
            /\ clCalls[i].outcome = "returned" => WalletsOfCall(i) = {clCalls[i].value}

\* C38: when the lookback query of createAvalancheTransferWallet fails,
\* the call goes on to its creation attempts as after an empty lookback,
\* with none of the 3 attempts used and nothing slept; whatever the call
\* raises afterwards is the failure of its third attempt.
C38_LookbackFailureSwallowed ==
    /\ [](/\ wpStats.lookback = "failed" /\ wpPc = "loop" /\ wpAttempts = 0 =>
                /\ wpStats.slept = 0
                /\ wpStats.submits = 0
                /\ ENABLED WP_Attempt
          /\ \A i \in 1..Len(clCalls) :
                clCalls[i].stats.lookback = "failed" =>
                    /\ clCalls[i].attempts >= 1
                    /\ clCalls[i].outcome = "thrown" =>
                          /\ clCalls[i].attempts = WalletMaxAttempts("transferWallet")
                          /\ clCalls[i].stats.slept >= 3000 + 6000
                    /\ clCalls[i].outcome = "returned" =>
                          clCalls[i].stats.path \in {"created", "recovered"})
    /\ [][wpPc = "lookback" /\ wpStats'.lookback = "failed" =>
            /\ wpPc' = "loop"
            /\ wpAttempts' = 0
            /\ clCalls' = clCalls
            /\ wpStats'.slept = wpStats.slept]_vars

\* A call whose lookback failed and that then created its wallet on the
\* third attempt.
C38_Witness ==
    \E i \in 1..Len(clCalls) :
        /\ clCalls[i].fn = "transferWallet"
        /\ clCalls[i].stats.lookback = "failed"
        /\ clCalls[i].outcome = "returned"
        /\ clCalls[i].stats.path = "created"
        /\ clCalls[i].attempts = 3

(***************************************************************************)
(* POST /api/transfer-usdc                                                 *)
(***************************************************************************)

\* What the validation of the route rejects: a missing field, a chain
\* other than base and arbitrum, an amount that is no number or not
\* positive.
trRejectedByValidation ==
    \/ ~Truthy(trWalletAddress) \/ ~Truthy(trChain) \/ trAmount = <<>>
    \/ ToLowerCase(trChain) \notin ValidChains
    \/ IF Includes(trAmount, ".")
       THEN ParseFloat(trAmount).nan \/ ParseFloat(trAmount).n <= 0
       ELSE DigitsValue(trAmount) <= 0

\* C32: a request to transfer-usdc runs the SDK's sequence at most 3
\* times, sleeping 2000 ms after the first failed run and 4000 ms after
\* the second; it answers with the result of the first run that succeeds
\* (no run follows a success), and with 500 only after three failed runs;
\* a request that the validation rejects is answered 400 without a run.
C32_TransferRunsAtMostThrice ==
    trRoute = "transfer-usdc" =>
        /\ trAttempt <= 3
        /\ Len(trSdkCalls) = trAttempt
        /\ IsPrefix(trSlept, <<2000, 4000>>)
        /\ trPc \in {"burn", "attestation", "mint", "complete"} =>
              /\ Len(trSlept) = trAttempt - 1
              /\ Len(trOutcomes) = trAttempt - 1
        /\ \A i \in 1..(Len(trOutcomes) - 1) : trOutcomes[i] # "none"
        /\ trRejectedByValidation => trAttempt = 0
        /\ trPc = "responded" =>
              /\ trResponse.status \in {200, 400, 500}
              /\ trResponse.status = 400 <=> trRejectedByValidation
              /\ trResponse.status = 200 =>
                    /\ trOutcomes[trAttempt] = "none"
                    /\ Len(trSlept) = trAttempt - 1
                    /\ trResponse.body.success
                    /\ trResponse.body.burnTxHash = trRun.burnTxHash
                    /\ trResponse.body.mintTxHash = trRun.mintTxHash
              /\ trResponse.status = 500 =>
                    /\ trAttempt = 3
                    /\ trSlept = <<2000, 4000>>
                    /\ \A i \in 1..3 : trOutcomes[i] # "none"

\* A transfer that succeeds on its third run.
C32_Witness ==
    /\ trRoute = "transfer-usdc"
    /\ trPc = "responded"
    /\ trResponse.status = 200
    /\ trAttempt = 3
    /\ trSlept = <<2000, 4000>>

\* C37: every amount the route hands to the SDK's transfer is greater
\* than 0.
C37_SdkAmountPositive ==
    \A i \in 1..Len(trSdkCalls) :
        trSdkCalls[i].fn = "transferUSDCWithSmartWallet" => trSdkCalls[i].amount > 0

\* What one successful split call changed in the balance of an account.
SplitDelta(a) ==
    twBalances[a] - twLast.before[a]

SplitCall == twLast.fn \in {"transferUSDC", "transferAllUSDC"} /\ twLast.result = "ok"

\* C34: for every amount the fee is floor(amount / 100), the destination
\* gets amount minus the fee and the two add up to the amount; a successful
\* transferUSDC(amount), like transferAllUSDC, makes exactly the transfer
\* of the fee to FEE_ADDRESS and of the rest to the destination of the
\* moment, the balances change by exactly these, no other account changes,
\* and a reverted call changes nothing.
C34_FeeSplitConserves ==
    /\ \A amount \in 0..MaxTokenBalance :
        LET split == calculateFeeSplit(amount)
        IN  /\ split.feeAmount * 100 <= amount
            /\ amount < (split.feeAmount + 1) * 100
            /\ split.destinationAmount = amount - split.feeAmount
            /\ split.feeAmount + split.destinationAmount = amount
    /\ SplitCall =>
        LET fee == twLast.amount \div 100
            rest == twLast.amount - fee
        IN  /\ twLast.amount > 0
            /\ twLast.transfers =
                 (IF fee > 0 THEN <<[to |-> FEE_ADDRESS, value |-> fee]>> ELSE <<>>)
                 \o (IF rest > 0 THEN <<[to |-> twLast.destination, value |-> rest]>> ELSE <<>>)
            /\ \A a \in Accounts :
                SplitDelta(a) =
                    (IF a = FEE_ADDRESS THEN fee ELSE 0)
                    + (IF a = twLast.destination THEN rest ELSE 0)
                    - (IF a = WalletAddress THEN twLast.amount ELSE 0)
            /\ \A a \in Accounts \ {WalletAddress, FEE_ADDRESS, twLast.destination} :
                SplitDelta(a) = 0
            /\ twDestination = twLast.destination
    /\ twLast.result = "reverted" => twBalances = twLast.before

\* A transferUSDC of 250 after the destination was changed to dB: 2 to the
\* fee address, 248 to dB, nothing to dA.
C34_Witness ==
    /\ twLast.fn = "transferUSDC"
    /\ twLast.result = "ok"
    /\ twLast.amount = 250
    /\ twLast.destination = "dB"
    /\ SplitDelta(FEE_ADDRESS) = 2
    /\ SplitDelta("dB") = 248
    /\ SplitDelta("dA") = 0

UpsertRoute == "POST /api/monomausers"

\* C39: under every interleaving of the upserts of POST /api/monomausers
\* for one email the table holds at most one row of that email; a request
\* is refused by the unique constraint at most once, is then run again by
\* runWithRetries and finds the row; a request whose statements all reach
\* the database ends with 201, 200 or 400 after one run, or after two when
\* its insert was refused, and then with 200 or, having no field, 400; a
\* 500 is the answer only after five failed runs.
C39_UpsertRace ==
    /\ \A email \in UserEmails \ {Undefined} :
        Cardinality(Select(stUsers, "email", email)) <= 1
    /\ \A c \in Clients :
        LET op == stOps[c]
        IN  (op.route = UpsertRoute /\ op.key # Undefined) =>
            /\ op.refused <= 1
            /\ op.refused = 1 => op.pc # "insert" /\ Select(stUsers, "email", op.key) # {}
            /\ op.pc = "update" => Select(stUsers, "email", op.key) # {}
            /\ op.pc = "done" => op.status \in {200, 201, 400, 500}
            /\ (op.pc = "done" /\ op.status # 500) => Select(stUsers, "email", op.key) # {}
            /\ (op.pc = "done" /\ op.faults = 0) =>
                /\ op.status \in {200, 201, 400}
                /\ op.attempt = 1 + op.refused
                /\ op.refused = 1 =>
                     op.status = IF Provided(op.body, UserFields) = {} THEN 400 ELSE 200
                /\ op.status = 400 => Provided(op.body, UserFields) = {}
            /\ (op.pc = "done" /\ op.status = 500) =>
                /\ op.attempt = StoreMaxAttempts
                /\ op.faults + op.refused = StoreMaxAttempts
    /\ \A c, d \in Clients :
        (/\ c # d
         /\ stOps[c].route = UpsertRoute /\ stOps[d].route = UpsertRoute
         /\ stOps[c].key = stOps[d].key
         /\ stOps[c].status = 201) => stOps[d].status # 201

\* Two upserts of a new email: one created it with 201, the other lost the
\* insert, ran again and updated the one row with its field, 200.
C39_Witness ==
    /\ stOps[1].pc = "done" /\ stOps[1].status = 201 /\ stOps[1].faults = 0
    /\ stOps[2].pc = "done" /\ stOps[2].status = 200 /\ stOps[2].faults = 0
    /\ stOps[2].refused = 1
    /\ stOps[2].attempt = 2
    /\ stOps[2].slept = <<500>>
    /\ stOps[1].key = "a@x" /\ stOps[2].key = "a@x"
    /\ stOps[2].body["chains"] = "base"
    /\ Len(stUsers) = 1
    /\ stUsers[1].chains = "base"

PatchRoute == "PATCH /api/monomarequests/:payid"

\* The columns of monomarequests a PATCH is to set: status, hash and
\* descriptions, each when the body has it.
PatchedColumns(body) == {col \in {"status", "hash", "descriptions"} : body[col] # Undefined}

\* A request of the table keeps its place and its payid: no row is deleted.
RequestsKept ==
    /\ Len(stRequests') >= Len(stRequests)
    /\ \A i \in 1..Len(stRequests) : stRequests'[i].payid = stRequests[i].payid

\* The step is the UPDATE of the PATCH of client c, answered with 200.
PatchUpdates(c) ==
    /\ stOps[c].route = PatchRoute
    /\ stOps[c].pc = "update"
    /\ stOps'[c].pc = "done"
    /\ stOps'[c].status = 200

\* The step is the answer 404 or 400 of the PATCH of client c.
PatchRefuses(c) ==
    /\ stOps[c].route = PatchRoute
    /\ stOps[c].pc # "done"
    /\ stOps'[c].pc = "done"
    /\ stOps'[c].status \in {400, 404}

\* What a step may do to the requests, the columns in `also` being those a
\* PATCH may change beside the fields of its body.
RequestsChangeOnlyByPatch(also) ==
    /\ RequestsKept
    /\ \A i \in 1..Len(stRequests) :
        stRequests'[i] # stRequests[i] =>
            \E c \in Clients :
                /\ PatchUpdates(c)
                /\ stOps[c].key = stRequests[i].payid
    /\ \A c \in Clients :
        PatchUpdates(c) =>
            \A i \in 1..Len(stRequests) :
                IF stRequests[i].payid = stOps[c].key
                THEN \A col \in DOMAIN stRequests[i] :
                        IF col \in PatchedColumns(stOps[c].body)
                        THEN stRequests'[i][col] = stOps[c].body[col]
                        ELSE col \notin also => stRequests'[i][col] = stRequests[i][col]
                ELSE stRequests'[i] = stRequests[i]
    /\ \A c \in Clients :
        PatchRefuses(c) => UNCHANGED <<stUsers, stRequests>>

\* C33 as stated: a request is never deleted and is changed only by PATCH
\* /api/monomarequests/:payid, which sets exactly the fields among status,
\* hash and descriptions that its body provides and leaves every other
\* field of the request and every other request unchanged; a 404 or a 400
\* leaves the store unchanged.
C33_PatchChangesOnlyProvided == [][RequestsChangeOnlyByPatch({})]_vars

\* C33: a request is never deleted and is changed only by PATCH
\* /api/monomarequests/:payid, which sets exactly the fields among status,
\* hash and descriptions that its body provides, sets updated_at to the
\* time of the update and leaves every other field of the request and
\* every other request unchanged; a 404 or a 400 leaves the store
\* unchanged.
C33_PatchChangesProvidedAndUpdatedAt ==
    [][/\ RequestsChangeOnlyByPatch({"updated_at"})
       /\ \A c \in Clients :
            PatchUpdates(c) =>
                \A i \in Select(stRequests, "payid", stOps[c].key) :
                    stRequests'[i].updated_at = stClock]_vars

\* A PATCH of p1 with status and hash was answered 200 at time 2: the row
\* has the two values, its description, amount and created_at of before,
\* updated_at 2, and the request created meanwhile is as it was inserted.
C33_Witness ==
    /\ \E c \in Clients :
        /\ stOps[c].route = PatchRoute
        /\ stOps[c].key = "p1"
        /\ stOps[c].pc = "done" /\ stOps[c].status = 200
        /\ stOps[c].body["status"] = "paid" /\ stOps[c].body["hash"] = "0xh"
    /\ Len(stRequests) = 2
    /\ stRequests[1] =
         [payid |-> "p1", email |-> "a@x", smartwallets |-> Null, amount |-> "1.5",
          status |-> "paid", hash |-> "0xh", descriptions |-> "lunch",
          created_at |-> 0, updated_at |-> 2]
    /\ stRequests[2].payid \in GeneratedPayids
    /\ stRequests[2].updated_at = stRequests[2].created_at

\* A payment of the payid is in flight: a page is between the try and the
\* finally of handlePayment.
PaymentInFlight == \E t \in Tabs : pgTabs[t].inFlight

\* C40: the keys global-processing-<payid> and
\* processing-payment-processing-<payid> are set only while a payment of
\* the payid is in flight, so that a click is never rejected for a payment
\* that is not running, and at most one payment of the payid is in flight.
C40_NoStaleLock ==
    /\ (pgStorage.globalProcessingFlag \/ pgStorage.processingKey) => PaymentInFlight
    /\ Cardinality({t \in Tabs : pgTabs[t].inFlight}) <= 1

====
